---- MODULE Spec2Model ----
(***************************************************************************)
(* A model of the question-answering workflow of student_agent:            *)
(*   agents/student_rag.py          plan -> retrieve -> answer -> critique *)
(*   agents/student_systemprompt.py answer -> critique                     *)
(*   agents/function_tool.py        the CSV result sink                    *)
(*   agents/file_extractor.py       vector_search, the retrieval adapter   *)
(*   agents/semantic_chunker.py     split_text, the idea-anchored chunker  *)
(*   app/main.py                    the request handlers                   *)
(*                                                                         *)
(* One run of begin_answer is modelled stage by stage.  The language model *)
(* and the vector store are the environment: every response they can give *)
(* (or their raising) is a nondeterministic input of the stage that calls  *)
(* them.  Spec is one run; RunsSpec is two runs interleaved in one process; *)
(* EquivSpec is the two workflows side by side; ChunkSpec is one call of  *)
(* split_text; ParseSpec is the JSON extraction of one stage on one        *)
(* response text; SinkSpec is a sequence of write_to_csv calls on one     *)
(* path and RaceSpec two such calls at the same time; ApiSpec is one       *)
(* request to a handler of app/main.py; IngestSpec is one process_files    *)
(* call and SplitSpec one chunk_text call of file_extractor.py.            *)
(***************************************************************************)
EXTENDS Integers, Sequences, FiniteSets, TLC

(***************************************************************************)
(* Bounds of the model.                                                    *)
(***************************************************************************)
\* longest key_phrases list the model answers with
MaxPhrases == 2
\* longest final_answer list the model answers with
MaxAnswers == 2
\* most lines of a chunking plan
MaxPlanLines == 2
\* most pieces of a response text
MaxSegments == 3
\* most write_to_csv calls on one path
MaxCalls == 3
\* most qn_ids of one answer_questions request
MaxQuestions == 2
\* most files of one process_files call
MaxFiles == 3
\* longest text given to chunk_text, in characters
MaxTextLen == 4
\* largest chunk_size given to chunk_text
MaxChunkSize == 3
\* most turns of chunk_text's loop that are followed
MaxIterations == 6
\* longest list of related sentences the model answers with
MaxSentences == 2

SeqsUpTo(S, n) == UNION {[1..k -> S] : k \in 0..n}

(***************************************************************************)
(* JSON values as Python holds them after json.loads.  Every value is a    *)
(* record [t, s, n]:                                                       *)
(*   t = "list"  s = the elements, each an atom                            *)
(*   t = "str"   s = the characters (or, for a text whose length is never  *)
(*               taken, one atom naming the whole text)                    *)
(*   t = "num"   n = the number, in tenths (7 is 0.7)                      *)
(*   t = "null"  None                                                      *)
(*   t = "absent" the key is not in the dict                               *)
(* An atom is a string; NumAtom and EmptyListAtom are the two atoms that   *)
(* stand for an element that is not a Python str.                          *)
(***************************************************************************)
Val(t, s, n) == [t |-> t, s |-> s, n |-> n]
List(s) == Val("list", s, 0)
Str(s) == Val("str", s, 0)
Num(n) == Val("num", <<>>, n)
Null == Val("null", <<>>, 0)
Absent == Val("absent", <<>>, 0)

\* a list element that is the JSON number 5
NumAtom == "#5"
\* the [] that vector_search returns when the aggregation raises
EmptyListAtom == "#[]"
IsStrAtom(a) == a \notin {NumAtom, EmptyListAtom}

\* len(v): defined on lists and strings, a TypeError on numbers and None
HasLen(v) == v.t \in {"list", "str"}
PyLen(v) == Len(v.s)
\* iter(v): the items a for loop visits; a TypeError on numbers and None
Iterable(v) == v.t \in {"list", "str"}
Items(v) == v.s

(***************************************************************************)
(* A response of the generation gateway (ollama.chat), as far as the JSON  *)
(* extraction of the nodes can tell responses apart:                       *)
(*   kind   "raise"   the call itself raises                               *)
(*          "nomatch" the text has neither a ```json fence nor a {...} span*)
(*          "fenced"  the text has a ```json ... ``` block                 *)
(*          "span"    no fence, but a { ... } span                         *)
(*   syntax of the candidate the regular expression captured:              *)
(*          "invalid" not JSON                                             *)
(*          "ctrl"    JSON but for literal control characters in a string  *)
(*          "escaped" JSON with an escaped quote (\") inside a string       *)
(*          "ok"      JSON                                                 *)
(*   isobj  the candidate is a JSON object (a span that parses always is)  *)
(*   doc    the object's fields, Absent for a key it does not carry        *)
(***************************************************************************)
Responses(Docs, noDoc) ==
    {[kind |-> k, syntax |-> "invalid", isobj |-> FALSE, doc |-> noDoc] :
        k \in {"raise", "nomatch", "fenced", "span"}}
    \cup {[kind |-> "fenced", syntax |-> sx, isobj |-> FALSE, doc |-> noDoc] :
        sx \in {"ctrl", "escaped", "ok"}}
    \cup {[kind |-> k, syntax |-> sx, isobj |-> TRUE, doc |-> d] :
        k \in {"fenced", "span"}, sx \in {"ctrl", "escaped", "ok"}, d \in Docs}

\* re.search(r'```json\s*(.*?)\s*```') then re.search(r'(\{.*\})'):
\* whether either pattern matched
Matched(resp) == resp.kind \in {"fenced", "span"}

\* json.loads(json_str): whether it returns; strip tells whether the node
\* removed the control characters first
Loads(resp, strip) ==
    \/ resp.syntax \in {"ok", "escaped"}
    \/ resp.syntax = "ctrl" /\ strip

\* json_str.encode('utf-8').decode('unicode_escape'), the control characters
\* removed, then json.loads: the decoding turns \" into a bare quote, which
\* ends the string early
LoadsUnescaped(resp) == resp.syntax \in {"ok", "ctrl"}

\* the text is not JSON at all: nothing to extract, or a candidate that
\* json.loads rejects whatever was stripped from it
TextInvalid(resp) == resp.kind = "nomatch" \/ resp.syntax = "invalid"

\* dict.get(key, default)
Get(v, default) == IF v = Absent THEN default ELSE v

(***************************************************************************)
(* The inputs of one run.                                                  *)
(***************************************************************************)
\* the option letters a question's correct_option is drawn from
CorrectOptions == {"B"}
\* agent_db['studied']: the file names the agent is scoped to
StudiedSets == {<<>>, <<"Week2.pptx">>}
\* the two workflows: student_rag and student_systemprompt
Variants == {"rag", "system_prompt"}

\* what the PLAN prompt can be answered with
GetKnowledgeVals ==
    {Absent, Num(5), Str(<<>>), Str(<<"q">>),
     List(<<>>), List(<<"q1", "q2">>)}
PlanDocs == {[get_knowledge |-> v] : v \in GetKnowledgeVals}
NoPlanDoc == [get_knowledge |-> Absent]
PlanResponses == Responses(PlanDocs, NoPlanDoc)

\* what the RETRIEVE prompt can be answered with: lists of phrases (the
\* first one "p1": phrases are opaque, so lists are taken up to renaming),
\* a bare string, a number
Phrases == {"p1", "p2"}
KeyPhraseLists ==
    {l \in SeqsUpTo(Phrases, MaxPhrases) : Len(l) > 0 => l[1] = "p1"}
KeyPhraseVals ==
    {Absent, Num(5), Str(<<"a">>)} \cup {List(l) : l \in KeyPhraseLists}
RetrieveDocs == {[key_phrases |-> v] : v \in KeyPhraseVals}
NoRetrieveDoc == [key_phrases |-> Absent]
RetrieveResponses == Responses(RetrieveDocs, NoRetrieveDoc)

\* what the ANSWER prompt can be answered with
Letters == {"B", "b"}
FinalAnswerVals ==
    {Absent, Num(5), Str(<<>>), Str(<<"B">>), List(<<NumAtom>>)}
    \cup {List(l) : l \in SeqsUpTo(Letters, MaxAnswers)}
ConfidenceVals == {Absent, Num(7), Num(15)}
JustificationVals == {Absent, Str(<<"because">>)}
AnswerDocs ==
    {[final_answer |-> a, confidence_score |-> c, justification |-> j] :
        a \in FinalAnswerVals, c \in ConfidenceVals, j \in JustificationVals}
NoAnswerDoc ==
    [final_answer |-> Absent, confidence_score |-> Absent,
     justification |-> Absent]
AnswerResponses == Responses(AnswerDocs, NoAnswerDoc)

\* what the CRITIQUE prompt can be answered with
CommentVals == {Absent, Str(<<"well aligned">>)}
CritiqueDocs == {[comment |-> v] : v \in CommentVals}
NoCritiqueDoc == [comment |-> Absent]
CritiqueResponses == Responses(CritiqueDocs, NoCritiqueDoc)

(***************************************************************************)
(* The sentinels of the nodes.                                             *)
(***************************************************************************)
RetrieveFailed == Str(<<"Failed to retrieve knowledge.">>)
InvalidJsonAnswer == List(<<"Error: Invalid JSON response">>)
ErrorInAnswerNode == List(<<"Error in answer_node">>)
JsonParsingFailed == Str(<<"JSON parsing failed: JSONDecodeError">>)
NoJsonFound == Str(<<"Processing failed: No JSON found in response">>)
NoGetAttribute == Str(<<"Processing failed: object has no attribute 'get'">>)
CommentFailed == Str(<<"Failed to comment.">>)
Unknown == List(<<"Unknown">>)
NoJustification == Str(<<"No justification provided">>)
NoMatchingDocuments == "No matching documents found."

VARIABLES
    variant,     \* which workflow module runs
    question,    \* the Question: [qn_id, qn_options, correct_option]
    agent_db,    \* the AgentDB: [name, studied]
    pc,          \* begin_answer's position: "begin", a node, "END",
                 \* "returned", or "raised" (an exception left begin_answer)
    state,       \* the AgentState the graph threads through the nodes
    returned,    \* what begin_answer returned, NoResult before
    csv_file,    \* the result sink: [exists, lines]
    db,          \* file_processor.db: "None" or "agents_db"
    trace,       \* history: the nodes executed so far, in order
    chats,       \* history: the ollama.chat calls, [node, model, content]
    answered,    \* history: the object the answer response parsed to
    searches,    \* history: the vector_search calls, [query, filter, result]
    outcome      \* history: how each node ended: "-" (not run), "raised"
                 \* (the generation call raised) or the node's own outcome

\* several begin_answer calls in one process (main.answer_questions calls
\* begin_answer once per question and agent on the same module objects)
VARIABLES
    runs,        \* per run: [variant, pc, state, returned, solo], solo being
                 \* [pc, state, returned, db]: the same run, given the same
                 \* responses, in a process of its own
    shared       \* what the runs of one process share: [db, csv], the
                 \* file_processor.db singleton and the result sink

\* no run of the process has started, the sink is not there
NoShared == [db |-> "None", csv |-> [exists |-> FALSE, lines |-> <<>>]]

run_vars ==
    <<variant, question, agent_db, pc, state, returned, csv_file, db, trace,
      chats, answered, searches, outcome>>
multi_vars == <<runs, shared>>

\* SemanticChunker.split_text, one call
VARIABLES
    chunker_pc,     \* split_text's position: "plan" (before
                    \* write_chunking_plan), "extract" (in the loop, before
                    \* an extract_chunk call), "returned"; "off" when no
                    \* call is modelled
    plan_response,  \* history: what the plan call did, [kind, lines]
    list_of_ideas,  \* what write_chunking_plan returned
    idea_index,     \* the loop's position in list_of_ideas
    chunks,         \* the list split_text builds and returns
    groundings      \* history: the extract_chunk calls, [idea, outcome,
                    \* related, chunk]

chunk_vars ==
    <<chunker_pc, plan_response, list_of_ideas, idea_index, chunks,
      groundings>>
\* the JSON extraction of one stage, applied to one response text
VARIABLES
    parser_pc,      \* "parse" (the response is in), "done"; "off" when no
                    \* extraction is modelled
    parse_stage,    \* the stage whose code extracts
    response_text,  \* the response, as its pieces (see Segments)
    parse_result    \* [outcome, value]: how the stage's extraction ended
                    \* and what the stage stored

parse_vars == <<parser_pc, parse_stage, response_text, parse_result>>

\* a sequence of CSVWriter.write_to_csv calls on one path (the file itself
\* is csv_file)
VARIABLES
    csv_start,      \* history: the file before the first call
    csv_calls,      \* history: the data of the calls, in call order
    writers         \* the write_to_csv calls in progress at the same time:
                    \* each [pc, file_exists, data]

sink_vars == <<csv_start, csv_calls, writers>>

\* the callers of the workflow in app/main.py and file_extractor.py, one
\* call each
VARIABLES
    request,        \* one answer_questions request
    ingest,         \* one FileProcessor.process_files call
    splitting       \* one FileProcessor.chunk_text call

app_vars == <<request, ingest, splitting>>

\* what a single run of begin_answer leaves alone
not_run_vars == <<multi_vars, chunk_vars, parse_vars, sink_vars, app_vars>>
\* what the runs of one process leave alone
not_multi_vars == <<run_vars, chunk_vars, parse_vars, sink_vars, app_vars>>
\* what split_text leaves alone
not_chunk_vars == <<run_vars, multi_vars, parse_vars, sink_vars, app_vars>>
\* what the extraction of one response leaves alone
not_parse_vars == <<run_vars, multi_vars, chunk_vars, sink_vars, app_vars>>
\* what the callers leave alone
not_app_vars == <<run_vars, multi_vars, chunk_vars, parse_vars, sink_vars>>
vars == <<run_vars, multi_vars, chunk_vars, parse_vars, sink_vars, app_vars>>

\* none of the callers is modelled
NoApp ==
    /\ request = [pc |-> "off"]
    /\ ingest = [pc |-> "off"]
    /\ splitting = [pc |-> "off"]

\* no sequence of write_to_csv calls is modelled
NoSinkCalls ==
    /\ csv_start = [exists |-> FALSE, lines |-> <<>>]
    /\ csv_calls = <<>>
    /\ writers = <<>>

\* no extraction is modelled
NoParser ==
    /\ parser_pc = "off"
    /\ parse_stage = "none"
    /\ response_text = <<>>
    /\ parse_result = [outcome |-> "-", value |-> Absent]

\* no split_text call is modelled
NoChunker ==
    /\ chunker_pc = "off"
    /\ plan_response = [kind |-> "none", lines |-> <<>>]
    /\ list_of_ideas = <<>>
    /\ idea_index = 1
    /\ chunks = <<>>
    /\ groundings = <<>>

Nodes == {"planner", "retriever", "answer", "critique"}
NoResult ==
    [student_answer |-> Absent, confidence_score |-> Absent,
     justification |-> Absent, is_correct |-> FALSE, set |-> FALSE]
NoState ==
    [question |-> "", studied |-> <<>>, model |-> Absent,
     get_knowledge |-> Absent, key_phrases |-> Absent, content |-> Absent,
     final_answer |-> Absent, justification |-> Absent,
     confidence_score |-> Absent, comment |-> Absent]

(***************************************************************************)
(* student_rag.begin_answer and student_systemprompt.begin_answer, up to   *)
(* graph.stream: the initial AgentState.  A key the dict does not carry is *)
(* Absent.                                                                 *)
(***************************************************************************)
InitialState(v, q, a) ==
    IF v = "rag"
    THEN [NoState EXCEPT !.question = q.qn_options, !.studied = a.studied,
                         !.get_knowledge = List(<<>>), !.content = Str(<<>>),
                         !.final_answer = Str(<<>>),
                         !.justification = Str(<<>>),
                         !.confidence_score = Num(0), !.comment = Str(<<>>)]
    ELSE [NoState EXCEPT !.question = q.qn_options,
                         !.model = Str(<<"weak_student">>),
                         !.final_answer = Str(<<>>),
                         !.justification = Str(<<>>),
                         !.confidence_score = Num(0), !.comment = Str(<<>>)]

\* the model= argument of the node's ollama.chat call
ChatModel(v, st) == IF v = "rag" THEN Str(<<"student_agent">>) ELSE st.model

(***************************************************************************)
(* plan_node, after the generation call returned resp.                     *)
(***************************************************************************)
PlanParsed(resp) == Matched(resp) /\ Loads(resp, FALSE) /\ resp.isobj

\* how the node ended: "parsed", "invalid" (the except branch, on text that
\* is not JSON) or "failed" (the except branch, otherwise)
PlanOutcome(resp) ==
    IF PlanParsed(resp) THEN "parsed"
    ELSE IF TextInvalid(resp) THEN "invalid"
    ELSE "failed"

\* mutant: the except branch stores None instead of the empty list
plan_node_NoneOnFailure(st, resp) ==
    IF PlanParsed(resp)
    THEN [st EXCEPT !.get_knowledge =
                        Get(resp.doc.get_knowledge, List(<<>>))]
    ELSE [st EXCEPT !.get_knowledge = Null]

plan_node(st, resp) ==
    IF PlanParsed(resp)
    THEN [st EXCEPT !.get_knowledge =
                        Get(resp.doc.get_knowledge, List(<<>>))]
    ELSE [st EXCEPT !.get_knowledge = List(<<>>)]

(***************************************************************************)
(* rag_needed: the conditional edge after planner.  len() of a number or   *)
(* of None raises a TypeError, which no one catches.                       *)
(***************************************************************************)
\* mutant: the length test is dropped, every list goes to the retriever
rag_needed_AlwaysRetrieve(st) ==
    IF ~HasLen(st.get_knowledge) THEN "TypeError" ELSE "retriever"

rag_needed(st) ==
    IF ~HasLen(st.get_knowledge) THEN "TypeError"
    ELSE IF PyLen(st.get_knowledge) > 0 THEN "retriever"
    ELSE "answer"

(***************************************************************************)
(* generate_graph: the entry point and the edges of the two graphs.        *)
(***************************************************************************)
\* mutant: both graphs start at planner
EntryPoint_AlwaysPlanner(v) == "planner"

EntryPoint(v) == IF v = "rag" THEN "planner" ELSE "answer"

\* mutant: the retriever's edge goes to critique
NextNode_RetrieverToCritique(node, st) ==
    CASE node = "planner" -> rag_needed(st)
      [] node = "retriever" -> "critique"
      [] node = "answer" -> "critique"
      [] node = "critique" -> "END"

NextNode(node, st) ==
    CASE node = "planner" -> rag_needed(st)
      [] node = "retriever" -> "answer"
      [] node = "answer" -> "critique"
      [] node = "critique" -> "END"

(***************************************************************************)
(* file_processor.vector_search(query, filename_filter).  What the call    *)
(* does is the environment's choice:                                       *)
(*   "raise"  init_db or get_embeddings raises (both outside the try)      *)
(*   "error"  the aggregation raises: caught, [] is returned               *)
(*   "miss"   no document matches                                          *)
(*   "hit"    the cleaned text of the top result                           *)
(***************************************************************************)
SearchOutcomes == {"raise", "error", "miss", "hit"}

\* mutant: a miss returns None instead of the miss string
vector_search_NoneOnMiss(query, filename_filter, out) ==
    [query |-> query,
     filtered |-> Len(filename_filter) > 0,
     filter |-> filename_filter,
     raised |-> out = "raise",
     result |-> CASE out = "hit" -> "passage"
                  [] out = "miss" -> "#None"
                  [] out = "error" -> EmptyListAtom
                  [] out = "raise" -> ""]

vector_search(query, filename_filter, out) ==
    [query |-> query,
     \* if filename_filter: the $in filter is added only for a non-empty list
     filtered |-> Len(filename_filter) > 0,
     filter |-> filename_filter,
     raised |-> out = "raise",
     result |-> CASE out = "hit" -> "passage"
                  [] out = "miss" -> NoMatchingDocuments
                  [] out = "error" -> EmptyListAtom
                  [] out = "raise" -> ""]

(***************************************************************************)
(* knowledge_retrieval_node, after the generation call returned resp.      *)
(* outs[i] is what the i-th vector_search call of the loop does.           *)
(***************************************************************************)
RetrieveParsed(resp) ==
    /\ Matched(resp) /\ Loads(resp, FALSE) /\ resp.isobj
    /\ resp.doc.key_phrases # Absent

\* how many items the for loop is to visit
NumItems(resp) ==
    IF RetrieveParsed(resp) /\ Iterable(resp.doc.key_phrases)
    THEN Len(Items(resp.doc.key_phrases))
    ELSE 0

\* the index of the first call that raises, 0 if none does
FirstRaise(outs) ==
    IF \E i \in DOMAIN outs : outs[i] = "raise"
    THEN CHOOSE i \in DOMAIN outs :
            outs[i] = "raise" /\ \A j \in 1..(i - 1) : outs[j] # "raise"
    ELSE 0

\* the vector_search calls the loop makes, in order
RetrievalCalls(st, resp, outs) ==
    LET n == NumItems(resp)
        k == IF FirstRaise(outs) = 0 THEN n ELSE FirstRaise(outs)
    IN  [i \in 1..k |->
            vector_search(Items(resp.doc.key_phrases)[i], st.studied, outs[i])]

\* mutant: the except branch leaves content as it was
knowledge_retrieval_node_KeepContent(st, resp, outs) ==
    IF ~RetrieveParsed(resp)
    THEN st
    ELSE IF ~Iterable(resp.doc.key_phrases) \/ FirstRaise(outs) # 0
    THEN [st EXCEPT !.key_phrases = resp.doc.key_phrases,
                    !.content = RetrieveFailed]
    ELSE [st EXCEPT !.key_phrases = resp.doc.key_phrases,
                    !.content =
                        List([i \in 1..NumItems(resp) |->
                                RetrievalCalls(st, resp, outs)[i].result])]

\* mutant: the results of the loop are not stored in content
knowledge_retrieval_node_StaleContent(st, resp, outs) ==
    IF ~RetrieveParsed(resp)
    THEN [st EXCEPT !.content = RetrieveFailed]
    ELSE IF ~Iterable(resp.doc.key_phrases) \/ FirstRaise(outs) # 0
    THEN [st EXCEPT !.key_phrases = resp.doc.key_phrases,
                    !.content = RetrieveFailed]
    ELSE [st EXCEPT !.key_phrases = resp.doc.key_phrases]

knowledge_retrieval_node(st, resp, outs) ==
    IF ~RetrieveParsed(resp)
    THEN [st EXCEPT !.content = RetrieveFailed]
    ELSE IF ~Iterable(resp.doc.key_phrases) \/ FirstRaise(outs) # 0
    THEN [st EXCEPT !.key_phrases = resp.doc.key_phrases,
                    !.content = RetrieveFailed]
    ELSE [st EXCEPT !.key_phrases = resp.doc.key_phrases,
                    !.content =
                        List([i \in 1..NumItems(resp) |->
                                RetrievalCalls(st, resp, outs)[i].result])]

RetrieveOutcome(resp, outs) ==
    IF ~RetrieveParsed(resp)
    THEN IF TextInvalid(resp) THEN "invalid" ELSE "parse_failed"
    ELSE IF ~Iterable(resp.doc.key_phrases) \/ FirstRaise(outs) # 0
    THEN "retrieval_failed"
    ELSE "retrieved"

(***************************************************************************)
(* student_rag.answer_node, after the generation call returned resp.       *)
(***************************************************************************)
\* except json.JSONDecodeError
AnswerDecodeError(st) ==
    [st EXCEPT !.final_answer = InvalidJsonAnswer,
               !.confidence_score = Num(0),
               !.justification = JsonParsingFailed]

\* mutant: the sentinel is stored without its list brackets
AnswerGeneralError_BareString(st, message) ==
    [st EXCEPT !.final_answer = Str(<<"Error in answer_node">>),
               !.confidence_score = Num(0),
               !.justification = message]

\* except Exception
AnswerGeneralError(st, message) ==
    [st EXCEPT !.final_answer = ErrorInAnswerNode,
               !.confidence_score = Num(0),
               !.justification = message]

\* mutant: an object that lacks a field is given every default
AnswerParsed_AllOrNothing(st, doc) ==
    IF Absent \in {doc.final_answer, doc.confidence_score, doc.justification}
    THEN [st EXCEPT !.final_answer = Unknown,
                    !.confidence_score = Num(0),
                    !.justification = NoJustification]
    ELSE [st EXCEPT !.final_answer = doc.final_answer,
                    !.confidence_score = doc.confidence_score,
                    !.justification = doc.justification]

\* the values taken from the parsed object, with their defaults
AnswerParsed(st, doc) ==
    [st EXCEPT !.final_answer = Get(doc.final_answer, Unknown),
               !.confidence_score = Get(doc.confidence_score, Num(0)),
               !.justification = Get(doc.justification, NoJustification)]

AnswerOutcome(resp) ==
    IF ~Matched(resp) THEN "no_json"
    ELSE IF ~Loads(resp, TRUE) THEN "decode_error"
    ELSE IF ~resp.isobj THEN "not_object"
    ELSE "parsed"

\* mutant: a JSON value that is not an object is read as an object without
\* fields, so the defaults are taken
answer_node_NonObjectAsEmpty(st, resp) ==
    IF ~Matched(resp) THEN AnswerGeneralError(st, NoJsonFound)
    ELSE IF ~Loads(resp, TRUE) THEN AnswerDecodeError(st)
    ELSE AnswerParsed(st, resp.doc)

answer_node(st, resp) ==
    IF ~Matched(resp) THEN AnswerGeneralError(st, NoJsonFound)
    ELSE IF ~Loads(resp, TRUE) THEN AnswerDecodeError(st)
    ELSE IF ~resp.isobj THEN AnswerGeneralError(st, NoGetAttribute)
    ELSE AnswerParsed(st, resp.doc)

(***************************************************************************)
(* student_systemprompt.answer_node: the module's own copy of the node.     *)
(***************************************************************************)
sp_answer_node(st, resp) ==
    IF ~Matched(resp)
    THEN [st EXCEPT !.final_answer = List(<<"Error in answer_node">>),
                    !.confidence_score = Num(0),
                    !.justification = NoJsonFound]
    ELSE IF ~Loads(resp, TRUE)
    THEN [st EXCEPT !.final_answer = List(<<"Error: Invalid JSON response">>),
                    !.confidence_score = Num(0),
                    !.justification = JsonParsingFailed]
    ELSE IF ~resp.isobj
    THEN [st EXCEPT !.final_answer = List(<<"Error in answer_node">>),
                    !.confidence_score = Num(0),
                    !.justification = NoGetAttribute]
    ELSE [st EXCEPT !.final_answer =
                        Get(resp.doc.final_answer, List(<<"Unknown">>)),
                    !.confidence_score =
                        Get(resp.doc.confidence_score, Num(0)),
                    !.justification =
                        Get(resp.doc.justification,
                            Str(<<"No justification provided">>))]

\* the answer node of the workflow v
AnswerNodeOf(v, st, resp) ==
    IF v = "rag" THEN answer_node(st, resp) ELSE sp_answer_node(st, resp)

(***************************************************************************)
(* student_rag.critique_node, after the generation call returned resp.     *)
(***************************************************************************)
CritiqueParsed(resp) ==
    /\ Matched(resp) /\ LoadsUnescaped(resp) /\ resp.isobj
    /\ resp.doc.comment # Absent

CritiqueOutcome(resp) ==
    IF CritiqueParsed(resp) THEN "parsed"
    ELSE IF TextInvalid(resp) THEN "invalid"
    ELSE "failed"

\* mutant: the except branch leaves comment as it was
critique_node_KeepComment(st, resp) ==
    IF CritiqueParsed(resp)
    THEN [st EXCEPT !.comment = resp.doc.comment]
    ELSE st

\* mutant: the except branch clears content as well
critique_node_ClearsContent(st, resp) ==
    IF CritiqueParsed(resp)
    THEN [st EXCEPT !.comment = resp.doc.comment]
    ELSE [st EXCEPT !.comment = CommentFailed, !.content = Str(<<>>)]

critique_node(st, resp) ==
    IF CritiqueParsed(resp)
    THEN [st EXCEPT !.comment = resp.doc.comment]
    ELSE [st EXCEPT !.comment = CommentFailed]

\* mutant: the copy of student_systemprompt stores another failure comment
sp_critique_node_OtherComment(st, resp) ==
    IF CritiqueParsed(resp)
    THEN [st EXCEPT !.comment = resp.doc.comment]
    ELSE [st EXCEPT !.comment = Str(<<"Failed to critique.">>)]

\* student_systemprompt.critique_node: the module's own copy of the node
sp_critique_node(st, resp) ==
    IF CritiqueParsed(resp)
    THEN [st EXCEPT !.comment = resp.doc.comment]
    ELSE [st EXCEPT !.comment = Str(<<"Failed to comment.">>)]

\* the critique node of the workflow v
CritiqueNodeOf(v, st, resp) ==
    IF v = "rag" THEN critique_node(st, resp) ELSE sp_critique_node(st, resp)

(***************************************************************************)
(* CSVWriter.write_to_csv(filepath, data, fieldnames): the header is       *)
(* written when os.path.isfile said the file was not there, then the row.  *)
(***************************************************************************)
HeaderLine ==
    [header |-> TRUE, student_name |-> "", studied |-> <<>>, qn_id |-> "",
     question |-> "", final_answer |-> "",
     justification |-> Absent, confidence_score |-> Absent,
     comment |-> Absent, is_correct |-> FALSE]

\* mutant: the header is written by every call
write_to_csv_AlwaysHeader(file, data) ==
    [exists |-> TRUE, lines |-> file.lines \o <<HeaderLine, data>>]

write_to_csv(file, data) ==
    [exists |-> TRUE,
     lines |-> IF file.exists
               THEN Append(file.lines, data)
               ELSE file.lines \o <<HeaderLine, data>>]

(***************************************************************************)
(* begin_answer after graph.stream ended: the result of the critique node  *)
(* is logged, compared with the correct option, written and returned.      *)
(***************************************************************************)
\* "LLM answer:" + result['final_answer'][0] returns: final_answer can be
\* indexed, is not empty, and its first element is a str
CanLog(fa) == HasLen(fa) /\ PyLen(fa) > 0 /\ IsStrAtom(fa.s[1])

\* mutant: any answer of one element counts as correct
is_correct_AnySingleAnswer(fa, correct_option) == PyLen(fa) = 1

is_correct(fa, correct_option) ==
    PyLen(fa) = 1 /\ fa.s[1] = correct_option

csv_data(st, q, a) ==
    [header |-> FALSE, student_name |-> a.name, studied |-> a.studied,
     qn_id |-> q.qn_id, question |-> q.qn_options,
     final_answer |-> st.final_answer.s[1],
     justification |-> st.justification,
     confidence_score |-> st.confidence_score,
     comment |-> st.comment,
     is_correct |-> is_correct(st.final_answer, q.correct_option)]

Result(st, q) ==
    [student_answer |-> st.final_answer,
     confidence_score |-> st.confidence_score,
     justification |-> st.justification,
     is_correct |-> is_correct(st.final_answer, q.correct_option),
     set |-> TRUE]

\* student_systemprompt.begin_answer: the row carries the model's name too
sp_csv_data(st, q, a) ==
    [header |-> FALSE, student_name |-> a.name, studied |-> a.studied,
     model |-> "weak_student",
     qn_id |-> q.qn_id, question |-> q.qn_options,
     final_answer |-> st.final_answer.s[1],
     justification |-> st.justification,
     confidence_score |-> st.confidence_score,
     comment |-> st.comment,
     is_correct |-> (PyLen(st.final_answer) = 1
                     /\ st.final_answer.s[1] = q.correct_option)]

\* student_systemprompt.begin_answer: what it returns
sp_Result(st, q) ==
    [student_answer |-> st.final_answer,
     confidence_score |-> st.confidence_score,
     justification |-> st.justification,
     is_correct |-> (PyLen(st.final_answer) = 1
                     /\ st.final_answer.s[1] = q.correct_option),
     set |-> TRUE]

\* the row and the result of the workflow v
CsvDataOf(v, st, q, a) ==
    IF v = "rag" THEN csv_data(st, q, a) ELSE sp_csv_data(st, q, a)
ResultOf(v, st, q) == IF v = "rag" THEN Result(st, q) ELSE sp_Result(st, q)

(***************************************************************************)
(* The state machine.                                                      *)
(***************************************************************************)
Questions ==
    {[qn_id |-> "123", qn_options |-> "A. ... B. ...", correct_option |-> c] :
        c \in CorrectOptions}
Agents == {[name |-> "StudentA", studied |-> s] : s \in StudiedSets}
\* the sink before the run: not there, or there with its header
CsvFiles ==
    {[exists |-> FALSE, lines |-> <<>>],
     [exists |-> TRUE, lines |-> <<HeaderLine>>]}

Init ==
    /\ variant \in Variants
    /\ question \in Questions
    /\ agent_db \in Agents
    /\ csv_file \in CsvFiles
    /\ pc = "begin"
    /\ state = NoState
    /\ returned = NoResult
    /\ db = "None"
    /\ trace = <<>>
    /\ chats = <<>>
    /\ answered = NoAnswerDoc
    /\ searches = <<>>
    /\ outcome = [n \in Nodes |-> "-"]
    /\ runs = <<>>
    /\ shared = NoShared
    /\ NoChunker
    /\ NoParser
    /\ NoApp
    /\ NoSinkCalls

\* begin_answer: the graph and the initial state are built, the stream starts
BeginAnswer ==
    /\ pc = "begin"
    /\ state' = InitialState(variant, question, agent_db)
    /\ pc' = EntryPoint(variant)
    /\ UNCHANGED <<variant, question, agent_db, returned, csv_file, db, trace,
                   chats, searches, outcome>>
    /\ UNCHANGED not_run_vars
    /\ UNCHANGED answered

\* the ollama.chat call of a node
Chat(node, content) ==
    [node |-> node, model |-> ChatModel(variant, state), content |-> content]

\* the graph moves on from node with the state st the node returned
Advance(node, st) ==
    LET next == NextNode(node, st)
    IN  pc' = IF next = "TypeError" THEN "raised" ELSE next

PlanNode ==
    /\ pc = "planner"
    /\ trace' = Append(trace, "planner")
    /\ chats' = Append(chats, Chat("planner", Absent))
    /\ \E resp \in PlanResponses :
        IF resp.kind = "raise"
        THEN /\ pc' = "raised"
             /\ state' = state
             /\ outcome' = [outcome EXCEPT !.planner = "raised"]
        ELSE /\ state' = plan_node(state, resp)
             /\ Advance("planner", plan_node(state, resp))
             /\ outcome' = [outcome EXCEPT !.planner = PlanOutcome(resp)]
    /\ UNCHANGED <<variant, question, agent_db, returned, csv_file, db,
                   searches>>
    /\ UNCHANGED not_run_vars
    /\ UNCHANGED answered

KnowledgeRetrievalNode ==
    /\ pc = "retriever"
    /\ trace' = Append(trace, "retriever")
    /\ chats' = Append(chats, Chat("retriever", state.get_knowledge))
    /\ \E resp \in RetrieveResponses :
        IF resp.kind = "raise"
        THEN /\ pc' = "raised"
             /\ state' = state
             /\ searches' = searches
             /\ db' = db
             /\ outcome' = [outcome EXCEPT !.retriever = "raised"]
        ELSE \E outs \in [1..NumItems(resp) -> SearchOutcomes] :
             /\ state' = knowledge_retrieval_node(state, resp, outs)
             /\ searches' = searches \o RetrievalCalls(state, resp, outs)
             /\ db' = IF Len(RetrievalCalls(state, resp, outs)) > 0
                      THEN "agents_db" ELSE db
             /\ Advance("retriever",
                        knowledge_retrieval_node(state, resp, outs))
             /\ outcome' = [outcome EXCEPT !.retriever =
                               RetrieveOutcome(resp, outs)]
    /\ UNCHANGED <<variant, question, agent_db, returned, csv_file>>
    /\ UNCHANGED not_run_vars
    /\ UNCHANGED answered

AnswerNode ==
    /\ pc = "answer"
    /\ trace' = Append(trace, "answer")
    /\ chats' = Append(chats, Chat("answer", state.content))
    /\ \E resp \in AnswerResponses :
        IF resp.kind = "raise"
        THEN /\ pc' = "raised"
             /\ state' = state
             /\ outcome' = [outcome EXCEPT !.answer = "raised"]
             /\ answered' = answered
        ELSE /\ state' = AnswerNodeOf(variant, state, resp)
             /\ Advance("answer", AnswerNodeOf(variant, state, resp))
             /\ outcome' = [outcome EXCEPT !.answer = AnswerOutcome(resp)]
             /\ answered' = IF AnswerOutcome(resp) = "parsed"
                            THEN resp.doc ELSE answered
    /\ UNCHANGED <<variant, question, agent_db, returned, csv_file, db,
                   searches>>
    /\ UNCHANGED not_run_vars

CritiqueNode ==
    /\ pc = "critique"
    /\ trace' = Append(trace, "critique")
    /\ chats' = Append(chats, Chat("critique", state.content))
    /\ \E resp \in CritiqueResponses :
        IF resp.kind = "raise"
        THEN /\ pc' = "raised"
             /\ state' = state
             /\ outcome' = [outcome EXCEPT !.critique = "raised"]
        ELSE /\ state' = CritiqueNodeOf(variant, state, resp)
             /\ Advance("critique", CritiqueNodeOf(variant, state, resp))
             /\ outcome' = [outcome EXCEPT !.critique = CritiqueOutcome(resp)]
    /\ UNCHANGED <<variant, question, agent_db, returned, csv_file, db,
                   searches>>
    /\ UNCHANGED not_run_vars
    /\ UNCHANGED answered

\* begin_answer, from result = final_state.get('critique') to its return
RecordResult ==
    /\ pc = "END"
    /\ IF CanLog(state.final_answer)
       THEN /\ csv_file' = write_to_csv(csv_file,
                                        CsvDataOf(variant, state, question,
                                                  agent_db))
            /\ returned' = ResultOf(variant, state, question)
            /\ pc' = "returned"
       ELSE /\ pc' = "raised"
            /\ UNCHANGED <<csv_file, returned>>
    /\ UNCHANGED <<variant, question, agent_db, state, db, trace, chats,
                   searches, outcome>>
    /\ UNCHANGED not_run_vars
    /\ UNCHANGED answered

Next ==
    \/ BeginAnswer
    \/ PlanNode
    \/ KnowledgeRetrievalNode
    \/ AnswerNode
    \/ CritiqueNode
    \/ RecordResult

Spec == Init /\ [][Next]_vars

(***************************************************************************)
(* Several runs in one process.  file_processor is a module-level object:  *)
(* vector_search connects (init_db) only while file_processor.db is None,  *)
(* and init_db stores the handle before it pings the server, so whether a  *)
(* call pings depends on the calls made before it, whoever made them.      *)
(***************************************************************************)
RunIds == {1, 2}

\* what the services behind one vector_search call do: whether the ping of
\* init_db and get_embeddings return, and how the aggregation ends
SearchConds ==
    [ping : BOOLEAN, embed : BOOLEAN, aggregate : {"hit", "miss", "error"}]

\* what a vector_search call does when file_processor.db is d
SearchOutcome(d, cond) ==
    IF d = "None" /\ ~cond.ping THEN "raise"
    ELSE IF ~cond.embed THEN "raise"
    ELSE cond.aggregate

\* the calls of one retrieval loop: the first call leaves db set
SearchOuts(d, conds) ==
    [i \in DOMAIN conds |->
        SearchOutcome(IF i = 1 THEN d ELSE "agents_db", conds[i])]

\* where the graph goes from node with the state st the node returned
Goto(node, st) ==
    IF NextNode(node, st) = "TypeError" THEN "raised" ELSE NextNode(node, st)

\* one stage of begin_answer as a function: cur is [pc, state, returned, db],
\* resp the response of the stage's generation call, conds what the
\* services do for the stage's vector_search calls
Stage(v, q, a, cur, resp, conds) ==
    CASE cur.pc = "begin" ->
            [cur EXCEPT !.state = InitialState(v, q, a), !.pc = EntryPoint(v)]
      [] cur.pc \in Nodes /\ resp.kind = "raise" ->
            [cur EXCEPT !.pc = "raised"]
      [] cur.pc = "planner" /\ resp.kind # "raise" ->
            [cur EXCEPT !.state = plan_node(cur.state, resp),
                        !.pc = Goto("planner", plan_node(cur.state, resp))]
      [] cur.pc = "retriever" /\ resp.kind # "raise" ->
            LET outs == SearchOuts(cur.db, conds)
            IN  [cur EXCEPT
                    !.state = knowledge_retrieval_node(cur.state, resp, outs),
                    !.pc = Goto("retriever",
                                knowledge_retrieval_node(cur.state, resp,
                                                         outs)),
                    !.db = IF Len(RetrievalCalls(cur.state, resp, outs)) > 0
                           THEN "agents_db" ELSE cur.db]
      [] cur.pc = "answer" /\ resp.kind # "raise" ->
            [cur EXCEPT !.state = AnswerNodeOf(v, cur.state, resp),
                        !.pc = Goto("answer",
                                    AnswerNodeOf(v, cur.state, resp))]
      [] cur.pc = "critique" /\ resp.kind # "raise" ->
            [cur EXCEPT !.state = CritiqueNodeOf(v, cur.state, resp),
                        !.pc = Goto("critique",
                                    CritiqueNodeOf(v, cur.state, resp))]
      [] cur.pc = "END" ->
            IF CanLog(cur.state.final_answer)
            THEN [cur EXCEPT !.returned = ResultOf(v, cur.state, q),
                             !.pc = "returned"]
            ELSE [cur EXCEPT !.pc = "raised"]
      [] OTHER -> cur

\* a run that has not started
NewRun(v) ==
    [variant |-> v, pc |-> "begin", state |-> NoState, returned |-> NoResult,
     solo |-> [pc |-> "begin", state |-> NoState, returned |-> NoResult,
               db |-> "None"]]

\* the run r after its next stage, in this process and on its own
StageOfRun(r, resp, conds) ==
    LET run == runs[r]
        here == Stage(run.variant, question, agent_db,
                      [pc |-> run.pc, state |-> run.state,
                       returned |-> run.returned, db |-> shared.db],
                      resp, conds)
    IN  [variant |-> run.variant, pc |-> here.pc, state |-> here.state,
         returned |-> here.returned,
         solo |-> Stage(run.variant, question, agent_db, run.solo, resp,
                        conds)]

\* file_processor.db and the sink after the next stage of the run r
SharedAfter(r, resp, conds) ==
    LET run == runs[r]
        here == Stage(run.variant, question, agent_db,
                      [pc |-> run.pc, state |-> run.state,
                       returned |-> run.returned, db |-> shared.db],
                      resp, conds)
    IN  [db |-> here.db,
         csv |-> IF run.pc = "END" /\ here.pc = "returned"
                 THEN write_to_csv(shared.csv,
                                   CsvDataOf(run.variant, run.state, question,
                                             agent_db))
                 ELSE shared.csv]

\* the response of a stage that calls no service
NoResponse == [kind |-> "none"]

\* the single run of Spec is not modelled
NoSingleRun ==
    /\ variant = "rag"
    /\ csv_file = NoShared.csv
    /\ pc = "off"
    /\ state = NoState
    /\ returned = NoResult
    /\ db = "None"
    /\ trace = <<>>
    /\ chats = <<>>
    /\ answered = NoAnswerDoc
    /\ searches = <<>>
    /\ outcome = [n \in Nodes |-> "-"]

\* the responses the interleaved runs are given: the plan asks for
\* retrieval or not, one key phrase, an answer that can be logged or not, a
\* critique that parses or not
WellFormed(R) ==
    {resp \in R : resp.kind = "fenced" /\ resp.syntax = "ok" /\ resp.isobj}
RunsPlanResponses ==
    {resp \in WellFormed(PlanResponses) : resp.doc.get_knowledge.t = "list"}
RunsRetrieveResponses ==
    {resp \in WellFormed(RetrieveResponses) :
        resp.doc.key_phrases = List(<<"p1">>)}
RunsAnswerResponses ==
    {resp \in WellFormed(AnswerResponses) :
        /\ resp.doc.final_answer \in {List(<<"B">>), List(<<>>)}
        /\ resp.doc.confidence_score = Num(7)
        /\ resp.doc.justification # Absent}
RunsCritiqueResponses ==
    {resp \in CritiqueResponses : resp.kind \in {"nomatch", "span"}
                                    /\ resp.syntax \in {"invalid", "ok"}}
RunsSearchConds == {cond \in SearchConds : cond.embed}

RunsInit ==
    /\ NoSingleRun
    /\ question \in Questions
    /\ agent_db \in Agents
    /\ runs = [r \in RunIds |-> NewRun("rag")]
    /\ shared = NoShared
    /\ NoChunker
    /\ NoParser
    /\ NoApp
    /\ NoSinkCalls

RunStep(r, resp, conds) ==
    /\ runs' = [runs EXCEPT ![r] = StageOfRun(r, resp, conds)]
    /\ shared' = SharedAfter(r, resp, conds)
    /\ UNCHANGED not_multi_vars

RunBeginAnswer ==
    \E r \in RunIds :
        /\ runs[r].pc = "begin"
        /\ RunStep(r, NoResponse, <<>>)

RunPlanNode ==
    \E r \in RunIds :
        /\ runs[r].pc = "planner"
        /\ \E resp \in RunsPlanResponses : RunStep(r, resp, <<>>)

RunKnowledgeRetrievalNode ==
    \E r \in RunIds :
        /\ runs[r].pc = "retriever"
        /\ \E resp \in RunsRetrieveResponses :
           \E conds \in [1..NumItems(resp) -> RunsSearchConds] :
              RunStep(r, resp, conds)

RunAnswerNode ==
    \E r \in RunIds :
        /\ runs[r].pc = "answer"
        /\ \E resp \in RunsAnswerResponses : RunStep(r, resp, <<>>)

RunCritiqueNode ==
    \E r \in RunIds :
        /\ runs[r].pc = "critique"
        /\ \E resp \in RunsCritiqueResponses : RunStep(r, resp, <<>>)

RunRecordResult ==
    \E r \in RunIds :
        /\ runs[r].pc = "END"
        /\ RunStep(r, NoResponse, <<>>)

RunsNext ==
    \/ RunBeginAnswer
    \/ RunPlanNode
    \/ RunKnowledgeRetrievalNode
    \/ RunAnswerNode
    \/ RunCritiqueNode
    \/ RunRecordResult

RunsSpec == RunsInit /\ [][RunsNext]_vars

(***************************************************************************)
(* The two workflows side by side: run 1 is student_rag, run 2 is          *)
(* student_systemprompt, each in a process of its own; the answer and the  *)
(* critique call of both are given the same response.                      *)
(***************************************************************************)
EquivInit ==
    /\ NoSingleRun
    /\ question \in Questions
    /\ agent_db \in Agents
    /\ runs = <<NewRun("rag"), NewRun("system_prompt")>>
    /\ shared = NoShared
    /\ NoChunker
    /\ NoParser
    /\ NoApp
    /\ NoSinkCalls

\* the run r after its next stage, on its own
SoloStage(r, resp, conds) ==
    LET run == runs[r]
        next == Stage(run.variant, question, agent_db, run.solo, resp, conds)
    IN  [variant |-> run.variant, pc |-> next.pc, state |-> next.state,
         returned |-> next.returned, solo |-> next]

BothStep(resp) ==
    /\ runs' = [r \in RunIds |-> SoloStage(r, resp, <<>>)]
    /\ UNCHANGED <<shared, not_multi_vars>>

EquivBeginAnswer ==
    /\ \A r \in RunIds : runs[r].pc = "begin"
    /\ BothStep(NoResponse)

\* the plan call of run 1 returns
EquivPlanNode ==
    /\ runs[1].pc = "planner"
    /\ \E resp \in PlanResponses :
        /\ resp.kind # "raise"
        /\ runs' = [runs EXCEPT ![1] = SoloStage(1, resp, <<>>)]
    /\ UNCHANGED <<shared, not_multi_vars>>

EquivAnswerNode ==
    /\ \A r \in RunIds : runs[r].pc = "answer"
    /\ \E resp \in AnswerResponses : BothStep(resp)

EquivCritiqueNode ==
    /\ \A r \in RunIds : runs[r].pc = "critique"
    /\ \E resp \in CritiqueResponses : BothStep(resp)

EquivRecordResult ==
    /\ \A r \in RunIds : runs[r].pc = "END"
    /\ BothStep(NoResponse)

EquivNext ==
    \/ EquivBeginAnswer
    \/ EquivPlanNode
    \/ EquivAnswerNode
    \/ EquivCritiqueNode
    \/ EquivRecordResult

EquivSpec == EquivInit /\ [][EquivNext]_vars

(***************************************************************************)
(* agents/semantic_chunker.py: SemanticChunker.split_text.  A Python str   *)
(* is a TLA+ string; the text a regular expression captured is kept as     *)
(* its pieces, the whitespace apart, so that strip() has something to do. *)
(***************************************************************************)
Whitespace == {" ", "\t", "\r"}

\* the pieces as one str
RECURSIVE Flat(_)
Flat(pieces) ==
    IF pieces = <<>> THEN "" ELSE Head(pieces) \o Flat(Tail(pieces))

\* str.strip(): the whitespace at both ends is dropped
RECURSIVE Strip(_)
Strip(pieces) ==
    IF pieces = <<>> THEN pieces
    ELSE IF Head(pieces) \in Whitespace THEN Strip(Tail(pieces))
    ELSE IF pieces[Len(pieces)] \in Whitespace
    THEN Strip(SubSeq(pieces, 1, Len(pieces) - 1))
    ELSE pieces

\* " ".join(items)
RECURSIVE Join(_)
Join(items) ==
    IF items = <<>> THEN ""
    ELSE IF Len(items) = 1 THEN items[1]
    ELSE items[1] \o " " \o Join(Tail(items))

\* the lines a chunking plan is made of: match tells whether
\* r"Idea \d+: (.*)" matches in the line, rest is what (.*) captures then,
\* the line from the match to its end
PlanLines ==
    {[match |-> FALSE, rest |-> <<"Here are the key ideas:">>],
     [match |-> TRUE, rest |-> <<"Newton's second law">>],
     [match |-> TRUE,
      rest |-> <<"Kinematic equations need constant acceleration", " ">>],
     [match |-> TRUE, rest |-> <<>>]}

\* what the plan call can do: raise, or return a text
ChunkPlanResponses ==
    {[kind |-> "raise", lines |-> <<>>]}
    \cup {[kind |-> "text", lines |-> l] :
            l \in SeqsUpTo(PlanLines, MaxPlanLines)}

\* mutant: every line of the plan is taken as an idea
write_chunking_plan_EveryLine(all_ideas) ==
    [i \in 1..Len(all_ideas) |-> Flat(Strip(all_ideas[i].rest))]

\* mutant: an idea listed before is left out
write_chunking_plan_Dedup(all_ideas) ==
    LET matches == SelectSeq(all_ideas, LAMBDA line : line.match)
        first == {i \in 1..Len(matches) :
                    \A j \in 1..(i - 1) : matches[j] # matches[i]}
        Nth[k \in 0..Len(matches)] ==
            IF k = 0 THEN <<>>
            ELSE IF k \in first
                 THEN Append(Nth[k - 1], Flat(Strip(matches[k].rest)))
                 ELSE Nth[k - 1]
    IN  Nth[Len(matches)]

\* write_chunking_plan, after the generation call returned all_ideas:
\* re.findall, then each capture stripped
write_chunking_plan(all_ideas) ==
    LET matches == SelectSeq(all_ideas, LAMBDA line : line.match)
    IN  [i \in 1..Len(matches) |-> Flat(Strip(matches[i].rest))]

\* the sentences of the text split_text is given
DocumentSentences ==
    {"Newton's second law: F = ma.",
     "Kinematic equations need constant acceleration."}

\* what the extraction prompt can be answered with: lists of a sentence of
\* the text and of the empty string, and a paraphrase of the sentence
Sentences == {"Newton's second law: F = ma.", ""}
Paraphrase == "Force is mass times acceleration."
RelatedVals ==
    {Absent, Num(5), Str(<<"F", "=">>), List(<<NumAtom>>),
     List(<<Paraphrase>>)}
    \cup {List(l) : l \in SeqsUpTo(Sentences, MaxSentences)}
ExtractDocs == {[related |-> v] : v \in RelatedVals}
NoExtractDoc == [related |-> Absent]
ExtractResponses == Responses(ExtractDocs, NoExtractDoc)

\* parsed_feedback['related'] was read and " ".join(sentences) returned
ExtractParsed(resp) ==
    /\ Matched(resp) /\ Loads(resp, FALSE) /\ resp.isobj
    /\ resp.doc.related # Absent
    /\ Iterable(resp.doc.related)
    /\ \A i \in DOMAIN Items(resp.doc.related) :
          IsStrAtom(Items(resp.doc.related)[i])

\* extract_chunk, after the generation call returned resp: "" when nothing
\* matches and from the except branch
extract_chunk(resp) ==
    IF ExtractParsed(resp) THEN Join(Items(resp.doc.related)) ELSE ""

\* how the extract_chunk call ended
ExtractOutcome(resp) ==
    IF resp.kind = "raise" THEN "raised"
    ELSE IF ~ExtractParsed(resp) THEN "failed"
    ELSE IF extract_chunk(resp) = "" THEN "empty"
    ELSE "joined"

\* mutant: the idea and the chunk are put together without the period
ChunkText_NoPeriod(idea, chunk) == idea \o " " \o chunk

\* split_text: idea + ". " + chunk
ChunkText(idea, chunk) == idea \o ". " \o chunk

ChunkInit ==
    /\ NoSingleRun
    /\ question = [qn_id |-> "", qn_options |-> "", correct_option |-> ""]
    /\ agent_db = [name |-> "", studied |-> <<>>]
    /\ runs = <<>>
    /\ shared = NoShared
    /\ NoParser
    /\ NoApp
    /\ NoSinkCalls
    /\ chunker_pc = "plan"
    /\ plan_response = [kind |-> "none", lines |-> <<>>]
    /\ list_of_ideas = <<>>
    /\ idea_index = 1
    /\ chunks = <<>>
    /\ groundings = <<>>

\* split_text up to the loop: write_chunking_plan; when its generation call
\* raises, split_text's except branch is taken and chunks is returned
WriteChunkingPlan ==
    /\ chunker_pc = "plan"
    /\ \E resp \in ChunkPlanResponses :
        /\ plan_response' = resp
        /\ IF resp.kind = "raise"
           THEN /\ list_of_ideas' = list_of_ideas
                /\ chunker_pc' = "returned"
           ELSE /\ list_of_ideas' = write_chunking_plan(resp.lines)
                /\ chunker_pc' = IF write_chunking_plan(resp.lines) = <<>>
                                 THEN "returned" ELSE "extract"
    /\ UNCHANGED <<idea_index, chunks, groundings, not_chunk_vars>>

\* one turn of the loop: extract_chunk for the next idea; when its
\* generation call raises, the exception leaves extract_chunk and the loop,
\* split_text's except branch is taken and chunks is returned
ExtractChunk ==
    /\ chunker_pc = "extract"
    /\ \E resp \in ExtractResponses :
        LET idea == list_of_ideas[idea_index]
            chunk == IF resp.kind = "raise" THEN "" ELSE extract_chunk(resp)
        IN  /\ groundings' =
                  Append(groundings,
                         [idea |-> idea, outcome |-> ExtractOutcome(resp),
                          related |-> IF ExtractOutcome(resp) = "joined"
                                      THEN resp.doc.related ELSE Absent,
                          chunk |-> chunk])
            /\ chunks' = IF chunk # ""
                         THEN Append(chunks, ChunkText(idea, chunk))
                         ELSE chunks
            /\ idea_index' = IF resp.kind = "raise"
                             THEN idea_index ELSE idea_index + 1
            /\ chunker_pc' = IF resp.kind = "raise"
                                \/ idea_index = Len(list_of_ideas)
                             THEN "returned" ELSE "extract"
    /\ UNCHANGED <<plan_response, list_of_ideas, not_chunk_vars>>

ChunkNext ==
    \/ WriteChunkingPlan
    \/ ExtractChunk

ChunkSpec == ChunkInit /\ [][ChunkNext]_vars

(***************************************************************************)
(* The JSON extraction the five parsing stages share, on the text itself.  *)
(* A response text is a sequence of pieces:                                *)
(*   "prose"       text without backticks or braces                        *)
(*   "fence_open"  ```json                                                 *)
(*   "fence_close" ```                                                     *)
(*   "object"      a JSON object { ... }: syntax "ok", "ctrl" (a literal    *)
(*                 control character inside a string value) or "escaped"  *)
(*                 (an escaped quote inside a string value)                *)
(*   "braces"      a { ... } span that is not JSON                         *)
(***************************************************************************)
Segments ==
    {[kind |-> k, syntax |-> "none"] :
        k \in {"prose", "fence_open", "fence_close"}}
    \cup {[kind |-> "object", syntax |-> sx] : sx \in {"ok", "ctrl", "escaped"}}
    \cup {[kind |-> "braces", syntax |-> "invalid"]}

ResponseTexts == SeqsUpTo(Segments, MaxSegments)

\* the piece holds ``` (so does ```json)
HasBackticks(seg) == seg.kind \in {"fence_open", "fence_close"}
\* the piece starts with { and ends with }
HasBraces(seg) == seg.kind \in {"object", "braces"}

\* re.search(r'```json\s*(.*?)\s*```', text, re.DOTALL): the leftmost
\* ```json that has backticks after it, up to the nearest of them
FenceOpens(text) ==
    {i \in DOMAIN text :
        /\ text[i].kind = "fence_open"
        /\ \E j \in DOMAIN text : j > i /\ HasBackticks(text[j])}
FenceMatched(text) == FenceOpens(text) # {}
FenceGroup(text) ==
    LET open == CHOOSE i \in FenceOpens(text) :
                    \A k \in FenceOpens(text) : i <= k
        close == CHOOSE j \in DOMAIN text :
                    /\ j > open /\ HasBackticks(text[j])
                    /\ \A k \in (open + 1)..(j - 1) : ~HasBackticks(text[k])
    IN  SubSeq(text, open + 1, close - 1)

\* re.search(r'(\{.*\})', text, re.DOTALL): from the first { to the last }
BraceIndexes(text) == {i \in DOMAIN text : HasBraces(text[i])}
BraceMatched(text) == BraceIndexes(text) # {}
BraceGroup(text) ==
    LET first == CHOOSE i \in BraceIndexes(text) :
                    \A k \in BraceIndexes(text) : i <= k
        last == CHOOSE i \in BraceIndexes(text) :
                    \A k \in BraceIndexes(text) : k <= i
    IN  SubSeq(text, first, last)

\* json_str: what the two searches leave to json.loads
json_str(text) ==
    IF FenceMatched(text) THEN [kind |-> "fenced", pieces |-> FenceGroup(text)]
    ELSE IF BraceMatched(text)
    THEN [kind |-> "span", pieces |-> BraceGroup(text)]
    ELSE [kind |-> "nomatch", pieces |-> <<>>]

\* the syntax of the candidate as json.loads is to see it: JSON only when
\* the candidate is one object and nothing else
CandidateSyntax(pieces) ==
    IF Len(pieces) = 1 /\ pieces[1].kind = "object"
    THEN pieces[1].syntax ELSE "invalid"

\* the response text as the stage's code tells responses apart; doc is the
\* object the text carries
AsResponse(text, doc, noDoc) ==
    LET found == json_str(text)
        syntax == CandidateSyntax(found.pieces)
    IN  [kind |-> found.kind, syntax |-> syntax,
         isobj |-> syntax # "invalid",
         doc |-> IF syntax # "invalid" THEN doc ELSE noDoc]

ParsingStages == {"planner", "retriever", "answer", "critique", "grounding"}

\* the object of the responses given to a stage, and the object without
\* fields
StageDoc(stage) ==
    CASE stage = "planner" -> [get_knowledge |-> List(<<"q1", "q2">>)]
      [] stage = "retriever" -> [key_phrases |-> List(<<"p1">>)]
      [] stage = "answer" ->
            [final_answer |-> List(<<"B">>), confidence_score |-> Num(7),
             justification |-> Str(<<"because">>)]
      [] stage = "critique" -> [comment |-> Str(<<"well aligned">>)]
      [] stage = "grounding" ->
            [related |-> List(<<"Newton's second law: F = ma.">>)]
StageNoDoc(stage) ==
    CASE stage = "planner" -> NoPlanDoc
      [] stage = "retriever" -> NoRetrieveDoc
      [] stage = "answer" -> NoAnswerDoc
      [] stage = "critique" -> NoCritiqueDoc
      [] stage = "grounding" -> NoExtractDoc

\* the AgentState a stage is entered with
StageState ==
    [NoState EXCEPT !.get_knowledge = List(<<"q1", "q2">>),
                    !.content = Str(<<>>), !.final_answer = Str(<<>>),
                    !.justification = Str(<<>>),
                    !.confidence_score = Num(0), !.comment = Str(<<>>)]

\* the stage's code on the response resp: how it ended and what it stored
\* (every vector_search call of the retriever returns a passage)
StageResult(stage, resp) ==
    CASE stage = "planner" ->
            [outcome |-> PlanOutcome(resp),
             value |-> plan_node(StageState, resp).get_knowledge]
      [] stage = "retriever" ->
            [outcome |->
                RetrieveOutcome(resp, [i \in 1..NumItems(resp) |-> "hit"]),
             value |->
                knowledge_retrieval_node(
                    StageState, resp,
                    [i \in 1..NumItems(resp) |-> "hit"]).key_phrases]
      [] stage = "answer" ->
            [outcome |-> AnswerOutcome(resp),
             value |-> answer_node(StageState, resp).final_answer]
      [] stage = "critique" ->
            [outcome |-> CritiqueOutcome(resp),
             value |-> critique_node(StageState, resp).comment]
      [] stage = "grounding" ->
            [outcome |-> ExtractOutcome(resp),
             value |-> Str(<<extract_chunk(resp)>>)]

ParseInit ==
    /\ NoSingleRun
    /\ question = [qn_id |-> "", qn_options |-> "", correct_option |-> ""]
    /\ agent_db = [name |-> "", studied |-> <<>>]
    /\ runs = <<>>
    /\ shared = NoShared
    /\ NoChunker
    /\ NoSinkCalls
    /\ NoApp
    /\ parser_pc = "parse"
    /\ parse_stage \in ParsingStages
    /\ response_text \in ResponseTexts
    /\ parse_result = [outcome |-> "-", value |-> Absent]

\* the try block of the stage, from the searches to what is stored
ParseResponse ==
    /\ parser_pc = "parse"
    /\ parse_result' =
          StageResult(parse_stage,
                      AsResponse(response_text, StageDoc(parse_stage),
                                 StageNoDoc(parse_stage)))
    /\ parser_pc' = "done"
    /\ UNCHANGED <<parse_stage, response_text, not_parse_vars>>

ParseNext == ParseResponse

ParseSpec == ParseInit /\ [][ParseNext]_vars

(***************************************************************************)
(* CSVWriter.write_to_csv called again and again on one path.              *)
(***************************************************************************)
\* the AgentState of two finished runs
RowStates ==
    {[StageState EXCEPT !.final_answer = List(<<l>>),
                        !.confidence_score = Num(7),
                        !.justification = Str(<<"because">>),
                        !.comment = Str(<<"well aligned">>)] :
        l \in Letters}

\* the rows the two begin_answer write
CsvRows ==
    {csv_data(st, q, a) : st \in RowStates, q \in Questions, a \in Agents}
    \cup {sp_csv_data(st, q, a) :
            st \in RowStates, q \in Questions, a \in Agents}

\* the path before the first call: not there, there with its header, there
\* with its header and a row
SinkFiles ==
    CsvFiles
    \cup {[exists |-> TRUE, lines |-> <<HeaderLine, row>>] : row \in CsvRows}

SinkInit ==
    /\ variant = "rag"
    /\ question = [qn_id |-> "", qn_options |-> "", correct_option |-> ""]
    /\ agent_db = [name |-> "", studied |-> <<>>]
    /\ pc = "off"
    /\ state = NoState
    /\ returned = NoResult
    /\ db = "None"
    /\ trace = <<>>
    /\ chats = <<>>
    /\ answered = NoAnswerDoc
    /\ searches = <<>>
    /\ outcome = [n \in Nodes |-> "-"]
    /\ runs = <<>>
    /\ shared = NoShared
    /\ NoChunker
    /\ NoParser
    /\ NoApp
    /\ csv_start \in SinkFiles
    /\ csv_file = csv_start
    /\ csv_calls = <<>>
    /\ writers = <<>>

WriteToCsv ==
    /\ pc = "off"
    /\ Len(csv_calls) < MaxCalls
    /\ \E data \in CsvRows :
        /\ csv_file' = write_to_csv(csv_file, data)
        /\ csv_calls' = Append(csv_calls, data)
    /\ UNCHANGED <<variant, question, agent_db, pc, state, returned, db,
                   trace, chats, answered, searches, outcome, csv_start,
                   writers, app_vars, multi_vars,
                   chunk_vars, parse_vars>>

SinkNext == WriteToCsv

SinkSpec == SinkInit /\ [][SinkNext]_vars

(***************************************************************************)
(* Two write_to_csv calls on one path at the same time, as two runs in two *)
(* threads make them.  No lock is taken, so the steps of the calls         *)
(* interleave: the os.path.isfile test, the open in append mode (which     *)
(* creates the file), and the writes, which the buffered file object hands *)
(* to the file when the with block closes it.                              *)
(***************************************************************************)
Writers == {1, 2}

RaceInit ==
    /\ NoSingleRun
    /\ question = [qn_id |-> "", qn_options |-> "", correct_option |-> ""]
    /\ agent_db = [name |-> "", studied |-> <<>>]
    /\ runs = <<>>
    /\ shared = NoShared
    /\ NoChunker
    /\ NoParser
    /\ NoApp
    /\ csv_start = [exists |-> FALSE, lines |-> <<>>]
    /\ csv_calls = <<>>
    /\ writers \in [Writers -> {[pc |-> "isfile", file_exists |-> FALSE,
                                 data |-> row] : row \in CsvRows}]

\* what a step of a writer leaves alone
RaceFrame ==
    UNCHANGED <<variant, question, agent_db, pc, state, returned, db, trace,
                chats, answered, searches, outcome, csv_start, multi_vars,
                chunk_vars, parse_vars, app_vars>>

\* file_exists = os.path.isfile(filepath)
IsFile(w) ==
    /\ writers[w].pc = "isfile"
    /\ writers' = [writers EXCEPT ![w].pc = "open",
                                  ![w].file_exists = csv_file.exists]
    /\ UNCHANGED <<csv_file, csv_calls>>
    /\ RaceFrame

\* open(filepath, mode='a'): the file is there from now on
OpenAppend(w) ==
    /\ writers[w].pc = "open"
    /\ writers' = [writers EXCEPT ![w].pc = "write"]
    /\ csv_file' = [csv_file EXCEPT !.exists = TRUE]
    /\ UNCHANGED csv_calls
    /\ RaceFrame

\* writeheader when file_exists was False, writerow, and the close that
\* appends what was written to the file
WriteAndClose(w) ==
    /\ writers[w].pc = "write"
    /\ writers' = [writers EXCEPT ![w].pc = "closed"]
    /\ csv_file' =
          [csv_file EXCEPT !.lines =
              @ \o (IF writers[w].file_exists THEN <<>> ELSE <<HeaderLine>>)
                \o <<writers[w].data>>]
    /\ csv_calls' = Append(csv_calls, writers[w].data)
    /\ RaceFrame

RaceNext ==
    \E w \in Writers :
        \/ IsFile(w)
        \/ OpenAppend(w)
        \/ WriteAndClose(w)

RaceSpec == RaceInit /\ [][RaceNext]_vars

(***************************************************************************)
(* app/main.py: one request to get_agent, delete_agent, send_message or    *)
(* answer_questions.  Every handler body is inside try ... except          *)
(* Exception, and HTTPException is an Exception: whatever is raised in the *)
(* body, an HTTPException included, is answered with status 500.           *)
(***************************************************************************)
Endpoints == {"get_agent", "delete_agent", "send_message", "answer_questions"}
QnIds == {"123", "124"}
\* find_one / delete_one on ObjectId(agent_id): the agent is there, is not
\* there, or agent_id is no ObjectId (InvalidId is raised)
AgentLookups == {"found", "missing", "invalid_id"}

\* except Exception as e: raise HTTPException(status_code=500, ...)
ExceptException(raised) == 500

\* the documents of questions_manual
QuestionOf(qn_id) ==
    [qn_id |-> qn_id, qn_options |-> "A. ... B. ...", correct_option |-> "B"]
TheAgent == [name |-> "StudentA", studied |-> <<"Week2.pptx">>]

\* how a begin_answer call of the request ends: it raises, or it returns
\* with the final AgentState state
BeginAnswerEnds == [raised : BOOLEAN, state : RowStates]

Requests ==
    {[pc |-> "start", endpoint |-> e, is_ready |-> r, agent |-> a,
      qn_ids |-> ids, stored |-> st, i |-> 1, started |-> <<>>,
      results |-> <<>>, status |-> 0] :
        e \in Endpoints, r \in BOOLEAN, a \in AgentLookups,
        ids \in SeqsUpTo(QnIds, MaxQuestions), st \in SUBSET QnIds}

ApiInit ==
    /\ NoSingleRun
    /\ question = [qn_id |-> "", qn_options |-> "", correct_option |-> ""]
    /\ agent_db = [name |-> "", studied |-> <<>>]
    /\ runs = <<>>
    /\ shared = NoShared
    /\ NoChunker
    /\ NoParser
    /\ NoSinkCalls
    /\ ingest = [pc |-> "off"]
    /\ splitting = [pc |-> "off"]
    /\ request \in
          {req \in Requests :
              req.endpoint # "answer_questions" =>
                  req.is_ready /\ req.qn_ids = <<>> /\ req.stored = {}}

\* what a step of a request leaves alone
ApiFrame ==
    UNCHANGED <<variant, question, agent_db, pc, state, returned, db, trace,
                chats, answered, searches, outcome, multi_vars, chunk_vars,
                parse_vars, sink_vars, ingest, splitting>>

Responded(status) == [request EXCEPT !.pc = "responded", !.status = status]

\* get_agent: 404 is raised inside the try
GetAgent ==
    /\ request.pc = "start" /\ request.endpoint = "get_agent"
    /\ request' = IF request.agent = "found" THEN Responded(200)
                  ELSE IF request.agent = "missing"
                  THEN Responded(ExceptException(404))
                  ELSE Responded(ExceptException(0))
    /\ UNCHANGED csv_file
    /\ ApiFrame

\* delete_agent: 404 is raised inside the try when deleted_count is 0
DeleteAgent ==
    /\ request.pc = "start" /\ request.endpoint = "delete_agent"
    /\ request' = IF request.agent = "found" THEN Responded(204)
                  ELSE IF request.agent = "missing"
                  THEN Responded(ExceptException(404))
                  ELSE Responded(ExceptException(0))
    /\ UNCHANGED csv_file
    /\ ApiFrame

\* send_message: begin_answer is given the message string as its question,
\* and question['qn_options'] on a str raises a TypeError
SendMessage ==
    /\ request.pc = "start" /\ request.endpoint = "send_message"
    /\ request' = IF request.agent = "missing"
                  THEN Responded(ExceptException(404))
                  ELSE Responded(ExceptException(0))
    /\ UNCHANGED csv_file
    /\ ApiFrame

\* answer_questions up to its loop: the readiness test, the qn_ids test and
\* the agent lookup
AnswerQuestions ==
    /\ request.pc = "start" /\ request.endpoint = "answer_questions"
    /\ request' =
          IF ~request.is_ready THEN Responded(ExceptException(503))
          ELSE IF request.qn_ids = <<>> THEN Responded(ExceptException(400))
          ELSE IF request.agent = "invalid_id"
          THEN Responded(ExceptException(0))
          ELSE IF request.agent = "missing"
          THEN Responded(ExceptException(404))
          ELSE [request EXCEPT !.pc = "loop"]
    /\ UNCHANGED csv_file
    /\ ApiFrame

\* one turn of the loop over qn_ids: the question is fetched, begin_answer
\* runs to its end (it appends its row and returns, or raises), the result
\* is appended; after the last turn results is returned with status 201
AnswerOneQuestion ==
    /\ request.pc = "loop"
    /\ LET qn_id == request.qn_ids[request.i]
           last == request.i = Len(request.qn_ids)
       IN  IF qn_id \notin request.stored
           THEN /\ request' = Responded(ExceptException(404))
                /\ UNCHANGED csv_file
           ELSE \E end \in BeginAnswerEnds :
                IF end.raised
                THEN /\ request' =
                          [Responded(ExceptException(0)) EXCEPT
                              !.started = Append(@, qn_id)]
                     /\ UNCHANGED csv_file
                ELSE /\ csv_file' =
                          write_to_csv(csv_file,
                                       csv_data(end.state,
                                                QuestionOf(qn_id),
                                                TheAgent))
                     /\ request' =
                          [request EXCEPT
                              !.started = Append(@, qn_id),
                              !.results =
                                  Append(@, [qn_id |-> qn_id,
                                             response |->
                                                Result(end.state,
                                                       QuestionOf(qn_id))]),
                              !.i = @ + 1,
                              !.pc = IF last THEN "responded" ELSE "loop",
                              !.status = IF last THEN 201 ELSE 0]
    /\ ApiFrame

ApiNext ==
    \/ GetAgent
    \/ DeleteAgent
    \/ SendMessage
    \/ AnswerQuestions
    \/ AnswerOneQuestion

ApiSpec == ApiInit /\ [][ApiNext]_vars

(***************************************************************************)
(* FileProcessor.process_files: the loop over the uploaded files with its  *)
(* running total_tokens.                                                   *)
(***************************************************************************)
MAX_TOKENS == 120000

\* the numbers of words of the extracted texts: their token counts are 0,
\* 60000, 60001, 120000 and 120001
WordCounts == {0, 46154, 46155, 92308, 92309}

\* tokenize_text: int(len(words) * 1.3)
tokenize_text(words) == (words * 13) \div 10

\* an uploaded file: whether a text was extracted from it, the words of the
\* text, and whether get_embeddings returns for its chunks
UploadFiles ==
    {[extracted |-> FALSE, words |-> 0, embeds |-> TRUE]}
    \cup {[extracted |-> TRUE, words |-> w, embeds |-> e] :
            w \in WordCounts, e \in BOOLEAN}

\* mutant: the limit is tested against the total before the file
ExceedsLimit_BeforeFile(total_tokens, new_tokens) == total_tokens > MAX_TOKENS

\* if self.total_tokens + new_tokens > MAX_TOKENS
ExceedsLimit(total_tokens, new_tokens) ==
    total_tokens + new_tokens > MAX_TOKENS

IngestInit ==
    /\ NoSingleRun
    /\ question = [qn_id |-> "", qn_options |-> "", correct_option |-> ""]
    /\ agent_db = [name |-> "", studied |-> <<>>]
    /\ runs = <<>>
    /\ shared = NoShared
    /\ NoChunker
    /\ NoParser
    /\ NoSinkCalls
    /\ request = [pc |-> "off"]
    /\ splitting = [pc |-> "off"]
    /\ ingest \in
          {[pc |-> "loop", files |-> fs, i |-> 1, total_tokens |-> 0,
            chunked |-> <<>>, processed_files |-> <<>>] :
              fs \in SeqsUpTo(UploadFiles, MaxFiles)}

\* one turn of the loop over files, or its end: a file without text and a
\* file that would exceed the limit are left by `continue`; for the others
\* total_tokens is raised, the text is chunked, and get_embeddings either
\* returns (the file is stored and listed) or raises, which ends the call
ProcessFile ==
    /\ ingest.pc = "loop"
    /\ ingest' =
          IF ingest.i > Len(ingest.files)
          THEN [ingest EXCEPT !.pc = "returned"]
          ELSE LET file == ingest.files[ingest.i]
                   new_tokens == tokenize_text(file.words)
               IN  IF ~file.extracted
                      \/ ExceedsLimit(ingest.total_tokens, new_tokens)
                   THEN [ingest EXCEPT !.i = @ + 1]
                   ELSE IF ~file.embeds
                   THEN [ingest EXCEPT
                            !.total_tokens = @ + new_tokens,
                            !.chunked = Append(@, ingest.i),
                            !.pc = "raised"]
                   ELSE [ingest EXCEPT
                            !.total_tokens = @ + new_tokens,
                            !.chunked = Append(@, ingest.i),
                            !.processed_files = Append(@, ingest.i),
                            !.i = @ + 1]
    /\ UNCHANGED <<not_app_vars, request, splitting>>

IngestNext == ProcessFile

IngestSpec == IngestInit /\ [][IngestNext]_vars

(***************************************************************************)
(* FileProcessor.chunk_text(text, chunk_size, overlap).  A text is a       *)
(* sequence of characters; positions are Python's, counted from 0.         *)
(***************************************************************************)
\* a letter, the full stop, the newline
Chars == {"a", ".", "\n"}
Texts == SeqsUpTo(Chars, MaxTextLen)

\* the characters text.rfind looks back over from end
Lookback == 100

\* a slice bound as Python reads it on a text of n characters: a negative
\* bound counts from the end, and bounds outside the text are clipped
SliceBound(i, n) ==
    IF i < 0 THEN (IF i + n < 0 THEN 0 ELSE i + n)
    ELSE IF i > n THEN n ELSE i

\* text.rfind(sub, lo, hi): the last position of sub in text[lo:hi], or -1
rfind(text, sub, lo, hi) ==
    LET hits == {i \in SliceBound(lo, Len(text))..(SliceBound(hi, Len(text)) - 1) :
                    text[i + 1] = sub}
    IN  IF hits = {} THEN -1 ELSE CHOOSE i \in hits : \A j \in hits : j <= i

\* text[lo:hi]
Slice(text, lo, hi) ==
    SubSeq(text, SliceBound(lo, Len(text)) + 1, SliceBound(hi, Len(text)))

\* str.strip() on a sequence of characters
RECURSIVE strip(_)
strip(text) ==
    IF text = <<>> THEN <<>>
    ELSE IF Head(text) = "\n" THEN strip(Tail(text))
    ELSE IF text[Len(text)] = "\n" THEN strip(SubSeq(text, 1, Len(text) - 1))
    ELSE text

\* where the chunk that starts at start ends: start + chunk_size, or just
\* after the last full stop or newline of the look-back window when that
\* lies after start
ChunkEnd(text, chunk_size, start) ==
    LET end == start + chunk_size
        last_period == rfind(text, ".", end - Lookback, end)
        last_newline == rfind(text, "\n", end - Lookback, end)
        boundary == IF last_period > last_newline
                    THEN last_period ELSE last_newline
    IN  IF end < Len(text) /\ boundary > start THEN boundary + 1 ELSE end

SplitInit ==
    /\ NoSingleRun
    /\ question = [qn_id |-> "", qn_options |-> "", correct_option |-> ""]
    /\ agent_db = [name |-> "", studied |-> <<>>]
    /\ runs = <<>>
    /\ shared = NoShared
    /\ NoChunker
    /\ NoParser
    /\ NoSinkCalls
    /\ request = [pc |-> "off"]
    /\ ingest = [pc |-> "off"]
    /\ splitting \in
          {[pc |-> "called", text |-> t, chunk_size |-> c, overlap |-> o,
            start |-> 0, chunks |-> <<>>, starts |-> <<>>] :
              t \in Texts, c \in 1..MaxChunkSize, o \in 0..(MaxChunkSize - 1)}
    /\ splitting.chunk_size > splitting.overlap

\* the test before the loop: a text of at most chunk_size characters is
\* returned as the one chunk
ChunkTextCalled ==
    /\ splitting.pc = "called"
    /\ splitting' =
          IF Len(splitting.text) <= splitting.chunk_size
          THEN [splitting EXCEPT !.pc = "returned",
                                 !.chunks = <<splitting.text>>]
          ELSE [splitting EXCEPT !.pc = "loop"]
    /\ UNCHANGED <<not_app_vars, request, ingest>>

\* the loop test and one turn of the loop
ChunkTextTurn ==
    /\ splitting.pc = "loop"
    /\ Len(splitting.starts) < MaxIterations
    /\ splitting' =
          IF ~(splitting.start < Len(splitting.text))
          THEN [splitting EXCEPT !.pc = "returned"]
          ELSE LET end == ChunkEnd(splitting.text, splitting.chunk_size,
                                   splitting.start)
                   chunk == strip(Slice(splitting.text, splitting.start, end))
               IN  [splitting EXCEPT
                       !.starts = Append(@, splitting.start),
                       !.chunks = IF chunk # <<>> THEN Append(@, chunk) ELSE @,
                       !.start = end - splitting.overlap]
    /\ UNCHANGED <<not_app_vars, request, ingest>>

SplitNext ==
    \/ ChunkTextCalled
    \/ ChunkTextTurn

SplitSpec == SplitInit /\ [][SplitNext]_vars

(***************************************************************************)
(* Properties.                                                             *)
(***************************************************************************)
Range(seq) == {seq[i] : i \in 1..Len(seq)}
IsPrefix(a, b) == Len(a) <= Len(b) /\ \A i \in 1..Len(a) : a[i] = b[i]
Entered(node) == pc = node \/ node \in Range(trace)
NonEmpty(v) == HasLen(v) /\ PyLen(v) > 0
Empty(v) == HasLen(v) /\ PyLen(v) = 0
\* the node orders the retrieval-augmented graph allows
RagOrders ==
    {<<"planner", "retriever", "answer", "critique">>,
     <<"planner", "answer", "critique">>}

\* C1: in a run of the retrieval-augmented workflow the nodes executed so
\* far, and the node about to execute, form a prefix of planner,
\* [retriever,] answer, critique (so retriever is followed only by answer,
\* answer only by critique, and no node runs twice), and the graph ends
\* only after critique, with one of the two full orders executed.
C1_StageOrder ==
    variant = "rag" =>
        /\ \E o \in RagOrders : IsPrefix(trace, o)
        /\ pc \in Nodes => \E o \in RagOrders : IsPrefix(Append(trace, pc), o)
        /\ pc \in {"END", "returned"} => trace \in RagOrders

C1_Witness ==
    /\ variant = "rag"
    /\ pc = "END"
    /\ trace = <<"planner", "retriever", "answer", "critique">>

\* C2: once plan_node has returned, the retriever is entered if and only if
\* get_knowledge is non-empty; when get_knowledge is empty no vector_search
\* call is ever made in the run and answer is the node after planner.
C2_RetrieveIffQueries ==
    (variant = "rag" /\ outcome.planner \in {"parsed", "invalid", "failed"}) =>
        /\ Entered("retriever") <=> NonEmpty(state.get_knowledge)
        /\ Empty(state.get_knowledge) =>
              /\ searches = <<>>
              /\ pc = "answer" \/ (Len(trace) >= 2 /\ trace[2] = "answer")

C2_Witness ==
    /\ variant = "rag"
    /\ outcome.planner = "parsed"
    /\ Empty(state.get_knowledge)
    /\ pc = "returned"
    /\ searches = <<>>
    /\ trace = <<"planner", "answer", "critique">>

\* every generation call made so far returned text that is not JSON
InvalidSoFar ==
    /\ outcome.planner \in {"-", "invalid"}
    /\ outcome.retriever \in {"-", "invalid"}
    /\ outcome.answer \in {"-", "no_json", "decode_error"}
    /\ outcome.critique \in {"-", "invalid"}

\* C3: while every generation call returns syntactically invalid text the
\* run never aborts and can always take its next step until begin_answer
\* has returned; what it returns then carries a one-element list holding a
\* sentinel string as the answer and the confidence score 0.0.
C3_InvalidTextStillReturns ==
    InvalidSoFar =>
        /\ pc # "raised"
        /\ pc # "returned" => ENABLED Next
        /\ pc = "returned" =>
              /\ returned.set
              /\ returned.student_answer \in
                    {InvalidJsonAnswer, ErrorInAnswerNode}
              /\ returned.student_answer.t = "list"
              /\ Len(returned.student_answer.s) = 1
              /\ returned.confidence_score = Num(0)

C3_Witness ==
    /\ variant = "rag"
    /\ InvalidSoFar
    /\ outcome.planner = "invalid"
    /\ outcome.answer = "no_json"
    /\ outcome.critique = "invalid"
    /\ pc = "returned"
    /\ returned.student_answer = ErrorInAnswerNode

\* C4: a generation call that raises does not end the run with an
\* exception.
C4_GenerationFailureNotFatal ==
    (\E n \in Nodes : outcome[n] = "raised") => pc # "raised"

\* C5: when the graph has ended, final_answer is a list with exactly one
\* element.
C5_FinalAnswerSingleElement ==
    pc \in {"END", "returned"} =>
        state.final_answer.t = "list" /\ Len(state.final_answer.s) = 1

\* C6: the is_correct that begin_answer returns is true if and only if
\* final_answer[0] equals the question's correct_option.
C6_IsCorrectIffFirstEqual ==
    pc = "returned" =>
        (returned.is_correct <=>
            state.final_answer.s[1] = question.correct_option)

\* no generation call has raised
NoChatRaised == \A n \in Nodes : outcome[n] # "raised"

\* C7: a run in which every generation call returned (whatever the nodes
\* made of the text) never ends with an exception, and when begin_answer
\* has returned the sink holds exactly one more line than the header.
C7_EveryParseCombinationReturns ==
    NoChatRaised =>
        /\ pc # "raised"
        /\ pc = "returned" =>
              /\ returned.set
              /\ Len(csv_file.lines) = 2

\* the answer node took one of its except branches
AnswerFailed == outcome.answer \in {"no_json", "decode_error", "not_object"}

\* C8: when the answer node fails to parse (no JSON found, invalid JSON, or
\* JSON that is not an object) final_answer is a one-element list holding a
\* sentinel error string, confidence_score is 0.0, justification describes
\* the failure, and the graph goes on to critique.
C8_AnswerParseFailureSentinel ==
    AnswerFailed =>
        /\ state.final_answer \in {InvalidJsonAnswer, ErrorInAnswerNode}
        /\ state.final_answer.t = "list"
        /\ Len(state.final_answer.s) = 1
        /\ state.confidence_score = Num(0)
        /\ state.justification \in
              {JsonParsingFailed, NoJsonFound, NoGetAttribute}
        /\ outcome.answer = "decode_error" <=>
              state.final_answer = InvalidJsonAnswer
        /\ Entered("critique")

C8_Witness ==
    /\ outcome.answer = "not_object"
    /\ state.final_answer = ErrorInAnswerNode
    /\ state.justification = NoGetAttribute
    /\ pc = "critique"

\* the plan node took its except branch
PlanFailed == outcome.planner \in {"invalid", "failed"}

\* C9: when the plan response cannot be parsed get_knowledge is the empty
\* list, the retriever is never entered, no vector_search call is made and
\* answer is the node after planner.
C9_PlanParseFailureSkipsRetrieval ==
    PlanFailed =>
        /\ state.get_knowledge = List(<<>>)
        /\ ~Entered("retriever")
        /\ searches = <<>>
        /\ pc = "answer" \/ (Len(trace) >= 2 /\ trace[2] = "answer")

C9_Witness ==
    /\ outcome.planner = "failed"
    /\ state.get_knowledge = List(<<>>)
    /\ pc = "answer"
    /\ trace = <<"planner">>

\* the key-phrase extraction of the retriever took the except branch before
\* the retrieval loop
RetrieveParseFailed == outcome.retriever \in {"invalid", "parse_failed"}

\* C10: when the key-phrase response cannot be parsed content is the one
\* sentinel string, no vector_search call is made and the graph goes on to
\* answer.
C10_KeyPhraseParseFailureSentinel ==
    RetrieveParseFailed =>
        /\ state.content = RetrieveFailed
        /\ searches = <<>>
        /\ Entered("answer")
        /\ pc # "raised" \/ "answer" \in Range(trace)

C10_Witness ==
    /\ outcome.retriever = "parse_failed"
    /\ state.content = RetrieveFailed
    /\ searches = <<>>
    /\ pc = "answer"

\* C11: when the key-phrase extraction succeeded and the retrieval loop ran
\* to its end, there is exactly one vector_search call per key phrase, in
\* order, each restricted to the documents the agent studied, and content is
\* a list of the same length whose i-th entry is what the i-th call
\* returned.
C11_OneScopedCallPerPhrase ==
    outcome.retriever = "retrieved" =>
        /\ Len(searches) = PyLen(state.key_phrases)
        /\ \A i \in DOMAIN searches :
              /\ searches[i].query = Items(state.key_phrases)[i]
              /\ searches[i].filter = agent_db.studied
              /\ searches[i].filtered
        /\ state.content.t = "list"
        /\ Len(state.content.s) = PyLen(state.key_phrases)
        /\ \A i \in DOMAIN searches : state.content.s[i] = searches[i].result

\* a vector_search call of the run missed, failed in the aggregation, or
\* raised
SearchFailed ==
    \E i \in DOMAIN searches :
        \/ searches[i].raised
        \/ searches[i].result \in {NoMatchingDocuments, EmptyListAtom}

CritiqueFailed == outcome.critique \in {"invalid", "failed"}

C14_ContextFreeAnswerCritiqueOnly ==
    variant = "system_prompt" =>
        /\ IsPrefix(trace, <<"answer", "critique">>)
        /\ pc \notin {"planner", "retriever"}
        /\ pc = "critique" => trace = <<"answer">>
        /\ pc \in {"END", "returned"} => trace = <<"answer", "critique">>
        /\ searches = <<>>
        /\ db = "None"
        /\ \A i \in DOMAIN chats :
              /\ chats[i].node = trace[i]
              /\ chats[i].model = Str(<<"weak_student">>)

C14_Witness ==
    /\ variant = "system_prompt"
    /\ pc = "returned"
    /\ trace = <<"answer", "critique">>
    /\ Len(chats) = 2
    /\ chats[1].model = chats[2].model

\* the fields the two workflows have in common
CommonFields ==
    {"final_answer", "confidence_score", "justification", "comment"}

\* C15: once the plan of the student_rag run has returned without queries,
\* the student_rag run and the student_systemprompt run, given the same
\* answer and critique responses, are at the same position with the same
\* final_answer, confidence_score, justification and comment, and what
\* they return has the same fields with the same values (is_correct
\* among them).
C15_SameTerminalFields ==
    (/\ DOMAIN runs = RunIds
     /\ runs[1].variant = "rag" /\ runs[2].variant = "system_prompt"
     /\ runs[1].pc \notin {"begin", "planner"}
     /\ Empty(runs[1].state.get_knowledge)) =>
        /\ runs[1].pc = runs[2].pc
        /\ \A f \in CommonFields : runs[1].state[f] = runs[2].state[f]
        /\ DOMAIN runs[1].returned = DOMAIN runs[2].returned
        /\ runs[1].returned = runs[2].returned

C15_Witness ==
    /\ DOMAIN runs = RunIds
    /\ runs[1].variant = "rag" /\ runs[2].variant = "system_prompt"
    /\ Empty(runs[1].state.get_knowledge)
    /\ runs[1].pc = "returned" /\ runs[2].pc = "returned"
    /\ runs[1].returned.is_correct
    /\ runs[1].state.comment = CommentFailed

\* C16: a run interleaved with another at stage granularity is, after each
\* of its stages, where the same run given the same responses is in a
\* process of its own: same position, same AgentState, same result.
C16_RunsIndependent ==
    \A r \in DOMAIN runs :
        /\ runs[r].pc = runs[r].solo.pc
        /\ runs[r].state = runs[r].solo.state
        /\ runs[r].returned = runs[r].solo.returned

\* the plan call raised, or no line of its text lists an idea
NoIdeas ==
    \/ plan_response.kind = "raise"
    \/ /\ plan_response.kind = "text"
       /\ \A i \in DOMAIN plan_response.lines : ~plan_response.lines[i].match

\* C17: when the plan call raises or its text lists no idea, split_text
\* has returned the empty list without a single extract_chunk call.
C17_NoIdeasNoChunks ==
    NoIdeas =>
        /\ chunker_pc = "returned"
        /\ chunks = <<>>
        /\ groundings = <<>>

C17_Witness ==
    /\ plan_response.kind = "text"
    /\ Len(plan_response.lines) = 2
    /\ NoIdeas
    /\ chunker_pc = "returned"
    /\ chunks = <<>>

\* the chunks of the extract_chunk calls that returned a non-empty string,
\* in the order of the calls
RECURSIVE ChunksOf(_)
ChunksOf(calls) ==
    IF calls = <<>> THEN <<>>
    ELSE IF Head(calls).outcome = "joined"
    THEN <<ChunkText(Head(calls).idea, Head(calls).chunk)>>
         \o ChunksOf(Tail(calls))
    ELSE ChunksOf(Tail(calls))

\* C18: when split_text has returned, extract_chunk was called for every
\* listed idea, whatever happened to the calls before (a response that does
\* not parse, or a generation call that raised), and the chunks are those
\* of the calls that returned sentences.
C18_PartialFailureTolerated ==
    chunker_pc = "returned" =>
        /\ Len(groundings) = Len(list_of_ideas)
        /\ chunks = ChunksOf(groundings)

\* the sentences as one text, a single space between two of them
RECURSIVE SpaceSeparated(_)
SpaceSeparated(sentences) ==
    IF Len(sentences) = 0 THEN ""
    ELSE IF Len(sentences) = 1 THEN sentences[1]
    ELSE SpaceSeparated(SubSeq(sentences, 1, Len(sentences) - 1))
            \o " " \o sentences[Len(sentences)]

\* the calls of groundings that returned sentences
JoinedCalls == SelectSeq(groundings, LAMBDA call : call.outcome = "joined")

\* C19: the k-th chunk is the idea of the k-th extract_chunk call that
\* returned sentences, then ". ", then the sentences of that call with a
\* single space between them; the plan "Idea 1: Newton's second law" with
\* the related list ["Newton's second law: F = ma."] gives exactly the
\* chunk "Newton's second law. Newton's second law: F = ma.".
C19_ChunkFormat ==
    /\ Len(chunks) = Len(JoinedCalls)
    /\ \A k \in DOMAIN chunks :
          chunks[k] = JoinedCalls[k].idea \o ". "
                        \o SpaceSeparated(Items(JoinedCalls[k].related))
    /\ (/\ chunker_pc = "returned"
        /\ plan_response.kind = "text"
        /\ SelectSeq(plan_response.lines, LAMBDA line : line.match)
              = <<[match |-> TRUE, rest |-> <<"Newton's second law">>]>>
        /\ Len(groundings) = 1
        /\ groundings[1].related
              = List(<<"Newton's second law: F = ma.">>)) =>
          chunks = <<"Newton's second law. Newton's second law: F = ma.">>

C19_Witness ==
    /\ chunker_pc = "returned"
    /\ plan_response.lines
          = <<[match |-> TRUE, rest |-> <<"Newton's second law">>]>>
    /\ groundings[1].related = List(<<"Newton's second law: F = ma.">>)
    /\ chunks = <<"Newton's second law. Newton's second law: F = ma.">>

\* the lines of the plan that list an idea, in the order of the text
ListedLines == SelectSeq(plan_response.lines, LAMBDA line : line.match)

\* C20: list_of_ideas has one idea per listing line of the plan, in the
\* order of the lines, a repeated idea as often as it is listed; the i-th
\* extract_chunk call is for the i-th idea; and the chunks are, in the
\* order of the calls, one for each call that returned sentences.
C20_OrderKeptNoDedup ==
    chunker_pc \in {"extract", "returned"} /\ plan_response.kind = "text" =>
        /\ Len(list_of_ideas) = Len(ListedLines)
        /\ \A i \in DOMAIN list_of_ideas :
              list_of_ideas[i] = Flat(Strip(ListedLines[i].rest))
        /\ Len(groundings) <= Len(list_of_ideas)
        /\ \A i \in DOMAIN groundings :
              groundings[i].idea = list_of_ideas[i]
        /\ chunks = ChunksOf(groundings)

C20_Witness ==
    /\ chunker_pc = "returned"
    /\ Len(list_of_ideas) = 2
    /\ list_of_ideas[1] = list_of_ideas[2]
    /\ Len(chunks) = 2
    /\ groundings[1].chunk # groundings[2].chunk

\* C21: the sentences the supporting text of a chunk is joined from (those
\* of the extract_chunk call the chunk comes from) all occur in the text
\* split_text was given.
C21_SupportVerbatim ==
    /\ Len(chunks) = Len(JoinedCalls)
    /\ \A k \in DOMAIN JoinedCalls :
          \A i \in DOMAIN Items(JoinedCalls[k].related) :
              Items(JoinedCalls[k].related)[i] \in DocumentSentences

\* C22: the idea a chunk starts with is not the empty string.
C22_IdeaNonEmpty ==
    /\ Len(chunks) = Len(JoinedCalls)
    /\ \A k \in DOMAIN JoinedCalls : JoinedCalls[k].idea # ""

\* C23: an extract_chunk call whose response does not parse, or whose
\* sentence list is empty, adds no chunk; and the supporting text of every
\* chunk is not empty and is joined from at least one sentence that is not
\* the empty string.
C23_NoSupportNoChunk ==
    /\ chunks = ChunksOf(groundings)
    /\ \A i \in DOMAIN groundings :
          groundings[i].outcome \in {"failed", "empty"} =>
              groundings[i].chunk = ""
    /\ \A k \in DOMAIN JoinedCalls :
          /\ JoinedCalls[k].chunk # ""
          /\ \E i \in DOMAIN Items(JoinedCalls[k].related) :
                Items(JoinedCalls[k].related)[i] # ""

\* what the stage stores when it parsed the object of StageDoc
StageValue(stage) ==
    CASE stage = "planner" -> List(<<"q1", "q2">>)
      [] stage = "retriever" -> List(<<"p1">>)
      [] stage = "answer" -> List(<<"B">>)
      [] stage = "critique" -> Str(<<"well aligned">>)
      [] stage = "grounding" -> Str(<<"Newton's second law: F = ma.">>)

\* the stage parsed the object and stored its field
StageParsed ==
    /\ parse_result.outcome \in {"parsed", "retrieved", "joined"}
    /\ parse_result.value = StageValue(parse_stage)

\* the stage took its parse-failure path
StageParseFailed ==
    parse_result.outcome \in
        {"invalid", "failed", "parse_failed", "no_json", "decode_error",
         "not_object"}

\* the text holds ```json, a valid JSON object, ``` in a row
HasFencedObject(text) ==
    \E i \in DOMAIN text :
        /\ i + 2 <= Len(text)
        /\ text[i].kind = "fence_open"
        /\ text[i + 1].kind = "object"
        /\ text[i + 1].syntax \in {"ok", "escaped"}
        /\ text[i + 2].kind = "fence_close"

\* C24: at each of the five parsing stages, a response text that holds a
\* fenced block with a valid JSON object is parsed and the object's field
\* is stored, and a response text without any brace takes the stage's
\* parse-failure path.
C24_FencedObjectParsedNoBracesFails ==
    parser_pc = "done" =>
        /\ HasFencedObject(response_text) => StageParsed
        /\ BraceIndexes(response_text) = {} => StageParseFailed

\* C28: when the response text has no backticks and several { ... }
\* spans, one of which is a JSON object, the stage parses that object.
C28_FirstParsingSpanPicked ==
    (/\ parser_pc = "done"
     /\ \A i \in DOMAIN response_text : ~HasBackticks(response_text[i])
     /\ Cardinality(BraceIndexes(response_text)) >= 2
     /\ \E i \in BraceIndexes(response_text) :
           response_text[i] = [kind |-> "object", syntax |-> "ok"]) =>
        StageParsed

\* C29: at each of the five parsing stages, when the candidate the searches
\* leave is a JSON object but for literal control characters inside a
\* string value, the stage parses the object.
C29_ControlCharactersStripped ==
    (/\ parser_pc = "done"
     /\ CandidateSyntax(json_str(response_text).pieces) = "ctrl") =>
        StageParsed

\* C25: after any sequence of write_to_csv calls on a path that was not
\* there, the file is one header line followed by the data of the calls in
\* call order; on a path that had its header, the file is what it was
\* followed by the data of the calls in call order, so no second header is
\* written and no line already there is changed or lost.
C25_OneHeaderThenRowsInOrder ==
    csv_calls # <<>> =>
        /\ ~csv_start.exists =>
              csv_file.lines = <<HeaderLine>> \o csv_calls
        /\ (csv_start.exists /\ csv_start.lines[1] = HeaderLine) =>
              /\ csv_file.lines = csv_start.lines \o csv_calls
              /\ \A i \in 2..Len(csv_file.lines) :
                    csv_file.lines[i] # HeaderLine

C25_Witness ==
    /\ ~csv_start.exists
    /\ Len(csv_calls) = 3
    /\ csv_calls[1] # csv_calls[2]
    /\ csv_file.lines = <<HeaderLine>> \o csv_calls

\* C26: when the run is over confidence_score is a number between 0 and 1
\* (numbers are kept in tenths), whatever the answer response was.
C26_ConfidenceInUnitRange ==
    pc \in {"END", "returned"} =>
        /\ state.confidence_score.t = "num"
        /\ state.confidence_score.n \in 0..10

\* C27: once the retriever has stored key_phrases no phrase is in it twice,
\* and no two vector_search calls of the run have the same query.
C27_KeyPhrasesDistinct ==
    outcome.retriever \in {"retrieved", "retrieval_failed"} =>
        /\ HasLen(state.key_phrases) =>
              \A i, j \in 1..PyLen(state.key_phrases) :
                  i # j => Items(state.key_phrases)[i]
                              # Items(state.key_phrases)[j]
        /\ \A i, j \in DOMAIN searches :
              i # j => searches[i].query # searches[j].query

\* the generation calls a node of the run has made
ChatsOf(node) == SelectSeq(chats, LAMBDA chat : chat.node = node)

\* every node entered has made one generation call and no other node has
\* made any; a run at its end has made 2 calls in the context-free graph, 4
\* when the retriever was entered and 3 when it was not
OneChatPerNode ==
    /\ \A node \in Nodes :
          Len(ChatsOf(node)) = IF node \in Range(trace) THEN 1 ELSE 0
    /\ pc \in {"END", "returned"} =>
          Len(chats) = IF variant = "system_prompt" THEN 2
                       ELSE IF "retriever" \in Range(trace) THEN 4 ELSE 3

\* C30: no generation call is made again: every node of a run makes one
\* call (2, 4 or 3 in a run at its end), and when split_text has returned it
\* has made its one plan call and one grounding call for each idea that
\* write_chunking_plan listed, no more and no fewer.
C30_OneGenerationCallEach ==
    /\ OneChatPerNode
    /\ chunker_pc = "returned" =>
          /\ plan_response.kind # "none"
          /\ Len(groundings) = Len(list_of_ideas)
          /\ \A i \in DOMAIN groundings :
                groundings[i].idea = list_of_ideas[i]

\* the content the retriever of the run left: the results of its
\* vector_search calls, or the sentinel of its except branch; the initial
\* empty string when the retriever was not entered
ContentOfRetrieve ==
    IF "retriever" \notin Range(trace) THEN Str(<<>>)
    ELSE IF outcome.retriever = "retrieved"
    THEN List([i \in DOMAIN searches |-> searches[i].result])
    ELSE RetrieveFailed

\* C31: in a run of the retrieval-augmented workflow the content in the
\* prompts of answer and critique is the content the retriever of the run
\* left, or the initial empty content when the retriever was skipped; answer
\* is entered only after the retriever has returned, and critique is given
\* the content answer was given.
C31_PromptsCarryRetrievedContent ==
    variant = "rag" =>
        /\ \A i \in DOMAIN chats :
              chats[i].node \in {"answer", "critique"} =>
                  chats[i].content = ContentOfRetrieve
        /\ \A i, j \in DOMAIN trace :
              (trace[i] = "retriever" /\ trace[j] = "answer") =>
                  /\ i < j
                  /\ outcome.retriever \notin {"-", "raised"}
        /\ \A i, j \in DOMAIN chats :
              (chats[i].node = "answer" /\ chats[j].node = "critique") =>
                  chats[i].content = chats[j].content

C31_Witness ==
    /\ variant = "rag"
    /\ outcome.retriever = "retrieved"
    /\ Len(searches) = 2
    /\ Len(ChatsOf("critique")) = 1
    /\ ChatsOf("answer")[1].content =
          List(<<searches[1].result, searches[2].result>>)

C31_WitnessSkipped ==
    /\ variant = "rag"
    /\ "retriever" \notin Range(trace)
    /\ Len(ChatsOf("critique")) = 1
    /\ ChatsOf("answer")[1].content = Str(<<>>)

\* the sentinels answer_node stores as final_answer on its failure paths
AnswerSentinels == {InvalidJsonAnswer, ErrorInAnswerNode}

\* C33: when begin_answer has returned and final_answer is one of the
\* sentinels of answer_node's failure paths (the answer stage took a failure
\* path), is_correct is False in the row appended to the sink and in the
\* returned result, correct_option being an option letter.
C33_FailedAnswerNeverCorrect ==
    (pc = "returned" /\ state.final_answer \in AnswerSentinels) =>
        /\ question.correct_option \in CorrectOptions
        /\ returned.set
        /\ ~returned.is_correct
        /\ returned.student_answer = state.final_answer
        /\ ~csv_file.lines[Len(csv_file.lines)].is_correct
        /\ csv_file.lines[Len(csv_file.lines)].final_answer =
              state.final_answer.s[1]

C33_Witness ==
    /\ pc = "returned"
    /\ variant = "rag"
    /\ outcome.answer = "decode_error"
    /\ state.final_answer = InvalidJsonAnswer
    /\ ~returned.is_correct
    /\ ~csv_file.lines[Len(csv_file.lines)].is_correct

\* C34: when the answer response parsed to an object, each field the object
\* lacks has its own default (['Unknown'], 0.0, 'No justification
\* provided') and each field it has is stored as returned; final_answer is
\* a failure sentinel only when the answer node took a failure path.
C34_MissingFieldsTakeDefaults ==
    /\ outcome.answer = "parsed" =>
          /\ state.final_answer =
                IF answered.final_answer = Absent
                THEN Unknown ELSE answered.final_answer
          /\ state.confidence_score =
                IF answered.confidence_score = Absent
                THEN Num(0) ELSE answered.confidence_score
          /\ state.justification =
                IF answered.justification = Absent
                THEN NoJustification ELSE answered.justification
    /\ (outcome.answer \notin {"-", "raised"}
            /\ state.final_answer \in AnswerSentinels) => AnswerFailed

C34_Witness ==
    /\ outcome.answer = "parsed"
    /\ answered.final_answer = Absent
    /\ answered.confidence_score = Num(7)
    /\ answered.justification = Absent
    /\ state.final_answer = Unknown
    /\ state.confidence_score = Num(7)
    /\ state.justification = NoJustification

\* the fields of the AgentState a node assigns
FieldsOf(node) ==
    CASE node = "planner" -> {"get_knowledge"}
      [] node = "retriever" -> {"key_phrases", "content"}
      [] node = "answer" ->
            {"final_answer", "confidence_score", "justification"}
      [] node = "critique" -> {"comment"}

\* C35: a step of a node changes no field of the AgentState but the node's
\* own: get_knowledge for planner, key_phrases and content for retriever,
\* final_answer, confidence_score and justification for answer, comment for
\* critique; question and studied are changed by no node, whichever branch
\* the node took.
C35_StagesWriteOwnFields ==
    [][\A node \in Nodes :
          pc = node =>
              \A f \in (DOMAIN state) \ FieldsOf(node) :
                  state'[f] = state[f]]_vars

C35_Witness ==
    /\ pc = "END"
    /\ trace = <<"planner", "retriever", "answer", "critique">>
    /\ outcome.retriever = "retrieved"
    /\ outcome.answer = "decode_error"
    /\ outcome.critique = "failed"
    /\ state.question = question.qn_options
    /\ state.studied = agent_db.studied
    /\ state.get_knowledge = List(<<"q1", "q2">>)
    /\ state.content.t = "list"
    /\ state.final_answer = InvalidJsonAnswer
    /\ state.comment = CommentFailed

\* C32: when two write_to_csv calls made at the same time on a path that
\* was not there have both returned, the file has one header line, which is
\* its first line, and the data of both calls.
C32_ConcurrentWritersOneHeader ==
    (\A w \in Writers : writers[w].pc = "closed") =>
        /\ csv_file.lines[1] = HeaderLine
        /\ \A i \in 2..Len(csv_file.lines) : csv_file.lines[i] # HeaderLine
        /\ Len(csv_file.lines) = 3
        /\ \A w \in Writers :
              \E i \in 2..Len(csv_file.lines) :
                  csv_file.lines[i] = writers[w].data

\* the loop of answer_questions was entered: the application was ready,
\* qn_ids was not empty and the agent was found
LoopEntered ==
    /\ request.endpoint = "answer_questions"
    /\ request.is_ready
    /\ request.qn_ids # <<>>
    /\ request.agent = "found"

\* the positions of qn_ids whose question is not stored
MissingAt == {k \in DOMAIN request.qn_ids : request.qn_ids[k] \notin request.stored}

\* the runs of a request are started in the order of qn_ids, each appends
\* its row before the next starts, and none is started at or after the
\* first id that is not found, whose request is answered with an error
\* while the rows of the ids before it stay in the sink
RunsInRequestOrder ==
    (request.pc \in {"loop", "responded"} /\ LoopEntered) =>
        /\ IsPrefix(request.started, request.qn_ids)
        /\ \A k \in DOMAIN request.results :
              /\ request.results[k].qn_id = request.qn_ids[k]
              /\ csv_file.lines[k + 1].qn_id = request.qn_ids[k]
        /\ Len(csv_file.lines) =
              IF request.results = <<>> THEN 0 ELSE Len(request.results) + 1
        /\ \A k \in MissingAt : Len(request.started) < k
        /\ (request.pc = "responded" /\ MissingAt # {}) =>
              request.status >= 400

\* C36: when an answer_questions request whose loop was entered has been
\* answered, the runs were started one after the other in the order of
\* qn_ids; when every id was found the answer is status 201 with one result
\* per id in that order; when an id was not found no run was started for it
\* or for a later id, the answer is an error and the rows of the earlier ids
\* are in the sink.
C36_QuestionsAnsweredInOrder ==
    /\ RunsInRequestOrder
    /\ (request.pc = "responded" /\ LoopEntered /\ MissingAt = {}) =>
          /\ request.status = 201
          /\ Len(request.results) = Len(request.qn_ids)
          /\ request.started = request.qn_ids

\* C37: a request for an agent that is not there is answered with status
\* 404 by get_agent, delete_agent, send_message and answer_questions, and an
\* answer_questions request that reaches an id whose question is not there
\* is answered with status 404.
C37_MissingAnsweredWith404 ==
    request.pc = "responded" =>
        /\ (/\ request.agent = "missing"
            /\ request.endpoint = "answer_questions" =>
                  request.is_ready /\ request.qn_ids # <<>>)
              => request.status = 404
        /\ (/\ LoopEntered
            /\ Len(request.started) + 1 \in MissingAt
            /\ Len(request.results) = Len(request.started))
              => request.status = 404

\* the tokens of the files of positions that were chunked
RECURSIVE TokensOf(_)
TokensOf(positions) ==
    IF positions = <<>> THEN 0
    ELSE tokenize_text(ingest.files[Head(positions)].words)
            + TokensOf(Tail(positions))

\* the positions before k that were chunked
ChunkedBefore(k) == SelectSeq(ingest.chunked, LAMBDA j : j < k)

\* the positions the loop has gone through
Handled ==
    {k \in DOMAIN ingest.files :
        k < ingest.i \/ (ingest.pc = "raised" /\ k = ingest.i)}

\* C38: during a process_files call total_tokens is at most MAX_TOKENS and
\* is the sum of the tokens of the files that were chunked; of the files the
\* loop has gone through, those chunked and embedded are exactly the ones
\* that had a text and whose tokens, added to the total at their turn, did
\* not exceed MAX_TOKENS; so a file that would exceed the limit is skipped,
\* leaves total_tokens as it was, and the files after it that fit are
\* processed.
C38_TotalTokensWithinLimit ==
    ingest.pc # "off" =>
        /\ ingest.total_tokens <= MAX_TOKENS
        /\ ingest.total_tokens = TokensOf(ingest.chunked)
        /\ \A k \in Handled :
              (k \in Range(ingest.chunked)) <=>
                  /\ ingest.files[k].extracted
                  /\ TokensOf(ChunkedBefore(k))
                        + tokenize_text(ingest.files[k].words) <= MAX_TOKENS
        /\ ingest.pc = "returned" =>
              /\ Handled = DOMAIN ingest.files
              /\ ingest.processed_files = ingest.chunked

C38_Witness ==
    /\ ingest.pc = "returned"
    /\ Len(ingest.files) = 3
    /\ tokenize_text(ingest.files[1].words) = 60000
    /\ tokenize_text(ingest.files[2].words) = 60001
    /\ tokenize_text(ingest.files[3].words) = 60000
    /\ ingest.processed_files = <<1, 3>>
    /\ ingest.total_tokens = MAX_TOKENS

\* C39: in a chunk_text call with chunk_size > overlap >= 0 the start of
\* each turn of the loop is greater than the start of the turn before, so
\* the loop has at most one turn per character of the text and the call
\* returns; no chunk has more than chunk_size characters.
C39_ChunkTextProgresses ==
    (splitting.pc # "off" /\ splitting.chunk_size > splitting.overlap
        /\ splitting.overlap >= 0) =>
        /\ \A k \in 1..(Len(splitting.starts) - 1) :
              splitting.starts[k] < splitting.starts[k + 1]
        /\ splitting.starts # <<>> =>
              splitting.starts[Len(splitting.starts)] < splitting.start
        /\ Len(splitting.starts) <= Len(splitting.text)
        /\ \A k \in DOMAIN splitting.chunks :
              Len(splitting.chunks[k]) <= splitting.chunk_size

====
